---------------------------- MODULE Spec2Model ----------------------------
(***************************************************************************)
(* Wayfare trip planner, client side: the vehicle form module              *)
(* (wayfare/static/js/vehicleForms.js), the page script with the           *)
(* motorcycle estimate (unnamed/part_001) and the application script       *)
(* (wayfare/static/app.js, with its earlier revision unnamed/part_000).    *)
(*                                                                         *)
(* JavaScript numbers are modelled as exact rationals extended with NaN    *)
(* and the two infinities; the sign of zero and binary rounding are not    *)
(* modelled.  Text typed into a form field is a sequence of one-character  *)
(* strings, so that parseFloat is a real conversion.                       *)
(***************************************************************************)
EXTENDS Integers, Sequences, FiniteSets, TLC

VARIABLES
    transportationType,  \* value of the <select id="transportationType">
    fields,              \* value of every <input>/<select> of the vehicle forms
    ret,                 \* the last call of a VehicleFormManager method and what it returned
    routeResults,        \* what updateRouteDisplay last rendered into #routeResults
    errorMessage,        \* the #errorMessage element: its text and whether it is shown
    plan,                \* the per-segment refueling planner: its inputs and its walk
    revision,            \* the application script the page runs: app.js or its earlier copy
    pending,             \* the responses of /api/v1/travel/route still to be handled
    currentRouteData,    \* the module-level currentRouteData
    panels,              \* what each result tab shows (the innerHTML of its container)
    map,                 \* routeLayer, markersLayer and the layers on the Leaflet map
    shareButtonHidden,   \* whether #shareRouteButton carries d-none
    opened,              \* the URLs handed to window.open, in order
    uncaught,            \* the exceptions no handler caught
    hidden,              \* whether #carDetails and #motorcycleDetails carry d-none
    inflight,            \* the requests sent to /api/v1/travel/route and not yet answered
    sent,                \* how many requests have been sent
    timers               \* the timeouts of showError: how many were started, which are due

formVars == <<transportationType, fields, hidden>>

fuelVars == <<ret, routeResults, plan>>

appVars == <<revision, pending, currentRouteData, panels, map, shareButtonHidden, opened,
             uncaught, inflight, sent, timers>>

vars == <<transportationType, fields, ret, routeResults, errorMessage, plan, revision,
          pending, currentRouteData, panels, map, shareButtonHidden, opened, uncaught,
          hidden, inflight, sent, timers>>

(***************************************************************************)
(* JavaScript numbers                                                      *)
(***************************************************************************)
RECURSIVE Gcd(_, _)
Gcd(a, b) == IF b = 0 THEN a ELSE Gcd(b, a % b)

Abs(x) == IF x < 0 THEN -x ELSE x

NaN == [t |-> "nan", n |-> 0, d |-> 1]

Inf(s) == [t |-> "inf", n |-> s, d |-> 1]

\* The rational n/d (d # 0) in lowest terms with a positive denominator.
Fin(n, d) ==
    LET g == Gcd(Abs(n), Abs(d))
        s == IF d < 0 THEN -1 ELSE 1
    IN  [t |-> "fin", n |-> (s * n) \div g, d |-> (s * d) \div g]

Num(n) == Fin(n, 1)

IsNaN(x) == x.t = "nan"

IsFinite(x) == x.t = "fin"

Sign(x) == IF x.n > 0 THEN 1 ELSE IF x.n < 0 THEN -1 ELSE 0

Neg(x) == IF x.t = "nan" THEN NaN ELSE [x EXCEPT !.n = -x.n]

Add(x, y) ==
    IF x.t = "nan" \/ y.t = "nan" THEN NaN
    ELSE IF x.t = "inf" /\ y.t = "inf" THEN (IF x.n = y.n THEN x ELSE NaN)
    ELSE IF x.t = "inf" THEN x
    ELSE IF y.t = "inf" THEN y
    ELSE Fin(x.n * y.d + y.n * x.d, x.d * y.d)

Sub(x, y) == Add(x, Neg(y))

Mul(x, y) ==
    IF x.t = "nan" \/ y.t = "nan" THEN NaN
    ELSE IF x.t = "inf" \/ y.t = "inf"
         THEN (IF Sign(x) * Sign(y) = 0 THEN NaN ELSE Inf(Sign(x) * Sign(y)))
    ELSE Fin(x.n * y.n, x.d * y.d)

\* x / y.  A finite non-zero number over zero is an infinity (of the sign of
\* the numerator: zero is taken as +0), zero over zero is NaN.
Div(x, y) ==
    IF x.t = "nan" \/ y.t = "nan" THEN NaN
    ELSE IF x.t = "inf" /\ y.t = "inf" THEN NaN
    ELSE IF x.t = "inf" THEN Inf(IF Sign(y) < 0 THEN -x.n ELSE x.n)
    ELSE IF y.t = "inf" THEN Num(0)
    ELSE IF y.n = 0 THEN (IF x.n = 0 THEN NaN ELSE Inf(Sign(x)))
    ELSE Fin(x.n * y.d, x.d * y.n)

\* x < y; every comparison with NaN is false.
Less(x, y) ==
    IF x.t = "nan" \/ y.t = "nan" THEN FALSE
    ELSE IF x.t = "inf" THEN x.n < 0 /\ ~(y.t = "inf" /\ y.n < 0)
    ELSE IF y.t = "inf" THEN y.n > 0
    ELSE x.n * y.d < y.n * x.d

Geq(x, y) == ~IsNaN(x) /\ ~IsNaN(y) /\ ~Less(x, y)

\* Math.ceil
Ceil(x) == IF x.t = "fin" THEN Num(-((-x.n) \div x.d)) ELSE x

\* Math.max(a, b)
Max(a, b) == IF IsNaN(a) \/ IsNaN(b) THEN NaN ELSE IF Less(a, b) THEN b ELSE a

Null == [t |-> "null"]

Undefined == [t |-> "undefined"]

Str(s) == [t |-> "str", s |-> s]

\* ToBoolean: null, undefined, NaN, zero and the empty string are falsy.
Truthy(x) ==
    CASE x.t \in {"null", "undefined", "nan"} -> FALSE
      [] x.t = "fin" -> x.n # 0
      [] x.t = "str" -> x.s # ""
      [] OTHER -> TRUE

\* a || b
Or(a, b) == IF Truthy(a) THEN a ELSE b

(***************************************************************************)
(* parseFloat on the text of a form field                                  *)
(***************************************************************************)
Digits == {"0", "1", "2", "3", "4", "5", "6", "7", "8", "9"}

DigitVal(c) ==
    CASE c = "0" -> 0 [] c = "1" -> 1 [] c = "2" -> 2 [] c = "3" -> 3 [] c = "4" -> 4
      [] c = "5" -> 5 [] c = "6" -> 6 [] c = "7" -> 7 [] c = "8" -> 8 [] c = "9" -> 9

RECURSIVE SkipSpace(_)
SkipSpace(s) == IF Len(s) > 0 /\ Head(s) = " " THEN SkipSpace(Tail(s)) ELSE s

\* The longest prefix of s made of digits.
RECURSIVE DigitRun(_)
DigitRun(s) ==
    IF Len(s) > 0 /\ Head(s) \in Digits THEN <<Head(s)>> \o DigitRun(Tail(s)) ELSE <<>>

RECURSIVE DigitsValue(_, _)
DigitsValue(s, acc) ==
    IF Len(s) = 0 THEN acc ELSE DigitsValue(Tail(s), 10 * acc + DigitVal(Head(s)))

RECURSIVE Pow10(_)
Pow10(k) == IF k = 0 THEN 1 ELSE 10 * Pow10(k - 1)

Drop(s, k) == SubSeq(s, k + 1, Len(s))

InfinityText == <<"I", "n", "f", "i", "n", "i", "t", "y">>

StartsWith(s, p) == Len(s) >= Len(p) /\ SubSeq(s, 1, Len(p)) = p

\* parseFloat(text): leading blanks are skipped, then an optional sign, then
\* "Infinity" or digits with an optional fraction; what follows is ignored, and
\* a text with no digit gives NaN.  (Exponents are not modelled.)
parseFloat(text) ==
    LET s0   == SkipSpace(text)
        neg  == Len(s0) > 0 /\ Head(s0) = "-"
        s1   == IF Len(s0) > 0 /\ Head(s0) \in {"-", "+"} THEN Tail(s0) ELSE s0
        ip   == DigitRun(s1)
        s2   == Drop(s1, Len(ip))
        fp   == IF Len(s2) > 0 /\ Head(s2) = "." THEN DigitRun(Tail(s2)) ELSE <<>>
        mag  == Fin(DigitsValue(ip \o fp, 0), Pow10(Len(fp)))
    IN  IF StartsWith(s1, InfinityText) THEN Inf(IF neg THEN -1 ELSE 1)
        ELSE IF Len(ip) + Len(fp) = 0 THEN NaN
        ELSE IF neg THEN Neg(mag) ELSE mag


\* Number.prototype.toFixed(k): the value rounded to k decimals, ties away from
\* zero; NaN and the infinities print as themselves.
toFixed(x, k) ==
    IF x.t # "fin" THEN x
    ELSE LET m == (Abs(x.n) * 2 * Pow10(k) + x.d) \div (2 * x.d)
         IN  Fin(IF x.n < 0 THEN -m ELSE m, Pow10(k))

\* parseInt(text): leading blanks, an optional sign, then digits; NaN when
\* there is none.
parseInt(text) ==
    LET s0  == SkipSpace(text)
        neg == Len(s0) > 0 /\ Head(s0) = "-"
        s1  == IF Len(s0) > 0 /\ Head(s0) \in {"-", "+"} THEN Tail(s0) ELSE s0
        ip  == DigitRun(s1)
    IN  IF Len(ip) = 0 THEN NaN
        ELSE Num(IF neg THEN -DigitsValue(ip, 0) ELSE DigitsValue(ip, 0))

(***************************************************************************)
(* The form (unnamed/part_001, the HTML of the page)                       *)
(***************************************************************************)
TransportTypes ==
    {"empty", "car", "motorcycle", "bicycle", "walking", "bus", "train", "plane", "sea"}

FieldIds ==
    {"carModel", "engineVolume", "fuelConsumption", "fuelType", "tankCapacity",
     "initialFuel", "engineCC", "motorcycleFuelConsumption", "motorcycleTankCapacity",
     "motorcycleInitialFuel", "motorcycleFuelType", "passengers"}

\* The value attributes of the page: the form as it is when the page is loaded.
HtmlDefaults ==
    [f \in FieldIds |->
        CASE f = "carModel" -> <<"Standard 1.6L">>
          [] f = "engineVolume" -> <<"1", ".", "6">>
          [] f = "fuelConsumption" -> <<"1", "1", ".", "0">>
          [] f = "fuelType" -> <<"gasoline">>
          [] f = "tankCapacity" -> <<"5", "0", ".", "0">>
          [] f = "initialFuel" -> <<"2", "5", ".", "0">>
          [] f = "engineCC" -> <<"1", "2", "5">>
          [] f = "motorcycleFuelConsumption" -> <<"4", "5", ".", "0">>
          [] f = "motorcycleTankCapacity" -> <<"1", "0", ".", "0">>
          [] f = "motorcycleInitialFuel" -> <<"5", ".", "0">>
          [] f = "motorcycleFuelType" -> <<"92">>
          [] f = "passengers" -> <<"1">>]

\* document.getElementById(id).value
Value(id) == fields[id]

\* The change handler of app.js: #carDetails is shown for a car and hidden for
\* everything else; #motorcycleDetails is not touched.
appChangeHandler(h, value) == [h EXCEPT !.carDetails = (value # "car")]

\* The change handler of the page script without the two classList.add calls
\* it starts with.
pageChangeHandler_noHide(h, value) ==
    CASE value = "car" -> [h EXCEPT !.carDetails = FALSE]
      [] value = "motorcycle" -> [h EXCEPT !.motorcycleDetails = FALSE]
      [] OTHER -> h

\* The change handler of the page script: both forms are hidden, then the one
\* of the selected vehicle is shown.
pageChangeHandler(h, value) ==
    LET none == [h EXCEPT !.carDetails = TRUE, !.motorcycleDetails = TRUE]
    IN  CASE value = "car" -> [none EXCEPT !.carDetails = FALSE]
          [] value = "motorcycle" -> [none EXCEPT !.motorcycleDetails = FALSE]
          [] OTHER -> none

\* The vehicle forms as the change handlers of the page (app.js, then the
\* page script, in the order they are registered) leave them for a selection;
\* for no selection this is the d-none both forms are loaded with.
HiddenFor(type) ==
    pageChangeHandler(appChangeHandler([carDetails |-> TRUE, motorcycleDetails |-> TRUE],
                                       type), type)

\* a || b on strings: the empty string is falsy.
OrText(a, b) == IF Len(a) > 0 THEN a ELSE b

(***************************************************************************)
(* VehicleFormManager (wayfare/static/js/vehicleForms.js)                  *)
(***************************************************************************)
\* hideAllVehicleForms()
hideAllVehicleForms(h) == [h EXCEPT !.carDetails = TRUE, !.motorcycleDetails = TRUE]

\* handleTransportationTypeChange(): the change handler the constructor
\* registers.
handleTransportationTypeChange(h, value) ==
    LET none == hideAllVehicleForms(h)
    IN  CASE value = "car" -> [none EXCEPT !.carDetails = FALSE]
          [] value = "motorcycle" -> [none EXCEPT !.motorcycleDetails = FALSE]
          [] OTHER -> none

getCarSpecifications ==
    [kind           |-> "car",
     model          |-> OrText(Value("carModel"), <<"Standard 1.6L">>),
     engine         |-> Or(parseFloat(Value("engineVolume")), Fin(16, 10)),
     consumption    |-> Or(parseFloat(Value("fuelConsumption")), Num(11)),
     fuel_type      |-> OrText(Value("fuelType"), <<"gasoline">>),
     tank_capacity  |-> Or(parseFloat(Value("tankCapacity")), Num(50)),
     initial_fuel   |-> Or(parseFloat(Value("initialFuel")), Num(25)),
     base_mass      |-> Num(1200),
     passenger_mass |-> Num(75)]

getMotorcycleSpecifications ==
    [kind           |-> "motorcycle",
     model          |-> <<>>,
     engine         |-> Or(parseFloat(Value("engineCC")), Num(125)),
     consumption    |-> Or(parseFloat(Value("motorcycleFuelConsumption")), Num(45)),
     fuel_type      |-> OrText(Value("motorcycleFuelType"), <<"92">>),
     tank_capacity  |-> Or(parseFloat(Value("motorcycleTankCapacity")), Num(10)),
     initial_fuel   |-> Or(parseFloat(Value("motorcycleInitialFuel")), Num(5)),
     base_mass      |-> Num(150),
     passenger_mass |-> Num(75)]

\* The specifications of the vehicle selected in the form; null when the
\* selected transport is neither a car nor a motorcycle.
getVehicleSpecifications ==
    CASE transportationType = "car" -> getCarSpecifications
      [] transportationType = "motorcycle" -> getMotorcycleSpecifications
      [] OTHER -> [kind |-> "null"]

\* calculateFuelNeeded with the car's figure taken as liters per km.
calculateFuelNeeded_perKm(distance, type) ==
    CASE type = "car" ->
            Mul(distance, Or(parseFloat(Value("fuelConsumption")), Num(11)))
      [] type = "motorcycle" ->
            Div(distance, Or(parseFloat(Value("motorcycleFuelConsumption")), Num(45)))
      [] OTHER -> Num(0)

\* calculateFuelNeeded with the liters charged once per passenger on board.
calculateFuelNeeded_perPassenger(distance, type) ==
    LET load == Or(parseInt(Value("passengers")), Num(1))
    IN  CASE type = "car" ->
                Mul(Mul(Div(distance, Num(100)),
                        Or(parseFloat(Value("fuelConsumption")), Num(11))), load)
          [] type = "motorcycle" ->
                Mul(Div(distance, Or(parseFloat(Value("motorcycleFuelConsumption")), Num(45))),
                    load)
          [] OTHER -> Num(0)

\* Liters for `distance` km: L/100km for a car, km/L for a motorcycle.
calculateFuelNeeded(distance, type) ==
    CASE type = "car" ->
            Mul(Div(distance, Num(100)), Or(parseFloat(Value("fuelConsumption")), Num(11)))
      [] type = "motorcycle" ->
            Div(distance, Or(parseFloat(Value("motorcycleFuelConsumption")), Num(45)))
      [] OTHER -> Num(0)

\* calculateRefuelingStops counting tanks for the whole need, the fuel on board
\* forgotten.
calculateRefuelingStops_fromEmpty(distance, type) ==
    LET specs == getVehicleSpecifications
        fuelNeeded == calculateFuelNeeded(distance, type)
    IN  IF specs.kind = "null" THEN Num(0)
        ELSE Max(Num(0), Ceil(Div(fuelNeeded, specs.tank_capacity)))

\* calculateRefuelingStops without the clamp at zero.
calculateRefuelingStops_noClamp(distance, type) ==
    LET specs == getVehicleSpecifications
        fuelNeeded == calculateFuelNeeded(distance, type)
        remainingFuel == Sub(specs.initial_fuel, fuelNeeded)
    IN  IF specs.kind = "null" THEN Num(0)
        ELSE Ceil(Div(Neg(remainingFuel), specs.tank_capacity))

calculateRefuelingStops(distance, type) ==
    LET specs == getVehicleSpecifications
        fuelNeeded == calculateFuelNeeded(distance, type)
        remainingFuel == Sub(specs.initial_fuel, fuelNeeded)
    IN  IF specs.kind = "null" THEN Num(0)
        ELSE Max(Num(0), Ceil(Div(Neg(remainingFuel), specs.tank_capacity)))

(***************************************************************************)
(* The page script of unnamed/part_001                                     *)
(***************************************************************************)
\* The route length the estimate is computed for: a placeholder of the code.
PlaceholderDistanceKm == 100

calculateMotorcycleRoute(engineCC, fuelEconomy, tankCapacity, currentFuel, fuelType) ==
    LET distance == Num(PlaceholderDistanceKm)
        fuelNeeded == Div(distance, fuelEconomy)
        remainingFuel == Sub(currentFuel, fuelNeeded)
        refuelingStops == Max(Num(0), Ceil(Div(Neg(remainingFuel), tankCapacity)))
    IN  [defined         |-> TRUE,
         rendered        |-> TRUE,
         distance        |-> distance,
         fuelConsumption |-> toFixed(fuelNeeded, 2),
         remainingFuel   |-> toFixed(Max(Num(0), remainingFuel), 2),
         refuelingStops  |-> refuelingStops,
         engineSize      |-> engineCC,
         fuelType        |-> fuelType]

\* routeDetails = {}: every property read by updateRouteDisplay is undefined.
EmptyRouteDetails == [defined |-> FALSE, rendered |-> TRUE]


\* updateRouteDisplay(details): #routeResults is emptied and filled from details.
updateRouteDisplay(details) == details

\* The submit handler of the page: the estimate is computed for a motorcycle
\* only, from the fields as parsed (no defaults); for every other transport the
\* details stay {} and are rendered all the same.
SubmitPage ==
    /\ routeResults' =
          updateRouteDisplay(
             IF transportationType = "motorcycle"
             THEN calculateMotorcycleRoute(
                     parseFloat(Value("engineCC")),
                     parseFloat(Value("motorcycleFuelConsumption")),
                     parseFloat(Value("motorcycleTankCapacity")),
                     parseFloat(Value("motorcycleInitialFuel")),
                     Value("motorcycleFuelType"))
             ELSE EmptyRouteDetails)
    /\ UNCHANGED <<formVars, ret, errorMessage, plan, appVars>>

(***************************************************************************)
(* The application script (wayfare/static/app.js) and its earlier copy     *)
(* (unnamed/part_000).  A cost object is the sequence of its entries       *)
(* <<key, value>> in insertion order, as Object.entries lists them.        *)
(***************************************************************************)
Revisions == {"app.js", "part_000"}

\* costs[key]
Get(costs, key) ==
    IF \E i \in 1..Len(costs) : costs[i][1] = key
    THEN costs[CHOOSE i \in 1..Len(costs) : costs[i][1] = key][2]
    ELSE Undefined

\* The costTypes table of displayCostDetails: the known keys and their labels.
costTypes ==
    [fuel_cost |-> "Fuel", ticket_cost |-> "Tickets", food_cost |-> "Food",
     water_cost |-> "Water", accommodation_cost |-> "Accommodation",
     toll_cost |-> "Road Tolls", parking_cost |-> "Parking",
     maintenance_cost |-> "Vehicle Maintenance", rest_stop_cost |-> "Rest Stops",
     other_cost |-> "Other Expenses"]

\* formatCurrency(amount, currency): the amount in cents precision with the
\* currency, USD when none is given.
formatCurrency(amount, currency) ==
    [amount   |-> CASE amount.t \in {"fin", "inf", "nan"} -> toFixed(amount, 2)
                    [] amount.t = "null" -> Num(0)
                    [] OTHER -> NaN,
     currency |-> Or(currency, Str("USD"))]

\* costItems with the entries whose value is 0 kept.
costItemsOf_withZeros(costs) ==
    LET Keep(e) ==
            /\ e[1] \in DOMAIN costTypes
            /\ e[2] # Null
            /\ e[2] # Undefined
            /\ e[1] # "total_cost"
            /\ e[1] # "currency"
        kept == SelectSeq(costs, Keep)
    IN  [i \in 1..Len(kept) |->
            [category |-> costTypes[kept[i][1]], amount |-> kept[i][2], key |-> kept[i][1]]]

\* The cost items of displayCostDetails: the entries of the known types whose
\* value is not null, undefined or 0, before they are sorted.
costItemsOf(costs) ==
    LET Keep(e) ==
            /\ e[1] \in DOMAIN costTypes
            /\ e[2] # Null
            /\ e[2] # Undefined
            /\ e[2] # Num(0)
            /\ e[1] # "total_cost"
            /\ e[1] # "currency"
        kept == SelectSeq(costs, Keep)
    IN  [i \in 1..Len(kept) |->
            [category |-> costTypes[kept[i][1]], amount |-> kept[i][2], key |-> kept[i][1]]]

\* Array.prototype.sort((a, b) => b.amount - a.amount): a stable sort, the
\* highest amount first.
RECURSIVE InsertDesc(_, _)
InsertDesc(sorted, x) ==
    IF sorted = <<>> THEN <<x>>
    ELSE IF Less(Head(sorted).amount, x.amount) THEN <<x>> \o sorted
    ELSE <<Head(sorted)>> \o InsertDesc(Tail(sorted), x)

RECURSIVE SortDesc(_, _)
SortDesc(items, acc) ==
    IF items = <<>> THEN acc ELSE SortDesc(Tail(items), InsertDesc(acc, Head(items)))

RECURSIVE SumAmounts(_)
SumAmounts(items) ==
    IF items = <<>> THEN Num(0) ELSE Add(SumAmounts(SubSeq(items, 1, Len(items) - 1)),
                                         items[Len(items)].amount)

\* The journey details with the masses of a single passenger, whatever the
\* passengers field holds.
carDetailsOf_onePassenger(costs) ==
    LET mass == IF transportationType = "car"
                THEN <<[label |-> "Vehicle mass", value |-> Num(1200)],
                       [label |-> "Passengers", value |-> Num(75)],
                       [label |-> "Total mass", value |-> Num(1275)]>>
                ELSE <<>>
        fuel == IF Truthy(Get(costs, "fuel_consumption"))
                THEN <<[label |-> "Fuel consumption",
                        value |-> toFixed(Get(costs, "fuel_consumption"), 1)]>>
                ELSE <<>>
        stops == IF Truthy(Get(costs, "refueling_stops"))
                 THEN <<[label |-> "Refueling stops needed",
                         value |-> Get(costs, "refueling_stops")]>>
                 ELSE <<>>
    IN  mass \o fuel \o stops

\* The journey details of displayCostDetails: consumption and stops when the
\* costs carry them, and for a car the masses, from the passengers field.
carDetailsOf(costs) ==
    LET passengers == parseInt(Value("passengers"))
        mass == IF transportationType = "car"
                THEN <<[label |-> "Vehicle mass", value |-> Num(1200)],
                       [label |-> "Passengers", value |-> Mul(Num(75), passengers)],
                       [label |-> "Total mass", value |-> Add(Num(1200), Mul(Num(75), passengers))]>>
                ELSE <<>>
        fuel == IF Truthy(Get(costs, "fuel_consumption"))
                THEN <<[label |-> "Fuel consumption",
                        value |-> toFixed(Get(costs, "fuel_consumption"), 1)]>>
                ELSE <<>>
        stops == IF Truthy(Get(costs, "refueling_stops"))
                 THEN <<[label |-> "Refueling stops needed",
                         value |-> Get(costs, "refueling_stops")]>>
                 ELSE <<>>
    IN  mass \o fuel \o stops

\* displayCostDetails with a sum that starts from the total already shown in
\* #costsDetails instead of 0.
displayCostDetails_accumulating(costs) ==
    LET costItems == SortDesc(costItemsOf(costs), <<>>)
        before == IF panels.costsDetails.shown THEN panels.costsDetails.view.total.amount
                  ELSE Num(0)
        sumOfCosts == Add(before, SumAmounts(costItems))
        totalCost == Or(Get(costs, "total_cost"), sumOfCosts)
        unexplainedCosts == Sub(totalCost, sumOfCosts)
        currency == Get(costs, "currency")
    IN  [by         |-> "app.js",
         items      |-> [i \in 1..Len(costItems) |->
                            [category |-> costItems[i].category,
                             key      |-> costItems[i].key,
                             value    |-> formatCurrency(costItems[i].amount, currency)]],
         additional |-> IF Less(Num(0), unexplainedCosts)
                        THEN [shown |-> TRUE, value |-> formatCurrency(unexplainedCosts, currency)]
                        ELSE [shown |-> FALSE],
         carDetails |-> carDetailsOf(costs),
         total      |-> formatCurrency(totalCost, currency)]

\* displayCostDetails of app.js: what it writes into #costsDetails.
displayCostDetails(costs) ==
    LET costItems == SortDesc(costItemsOf(costs), <<>>)
        sumOfCosts == SumAmounts(costItems)
        totalCost == Or(Get(costs, "total_cost"), sumOfCosts)
        unexplainedCosts == Sub(totalCost, sumOfCosts)
        currency == Get(costs, "currency")
    IN  [by         |-> "app.js",
         items      |-> [i \in 1..Len(costItems) |->
                            [category |-> costItems[i].category,
                             key      |-> costItems[i].key,
                             value    |-> formatCurrency(costItems[i].amount, currency)]],
         additional |-> IF Less(Num(0), unexplainedCosts)
                        THEN [shown |-> TRUE, value |-> formatCurrency(unexplainedCosts, currency)]
                        ELSE [shown |-> FALSE],
         carDetails |-> carDetailsOf(costs),
         total      |-> formatCurrency(totalCost, currency)]

\* The five cost fields the earlier copy lists, in its order.
costFields_part000 ==
    <<<<"fuel_cost", "Fuel">>, <<"ticket_cost", "Tickets">>, <<"food_cost", "Food">>,
      <<"water_cost", "Water">>, <<"accommodation_cost", "Accommodation">>>>

\* displayCostDetails of the earlier copy: the truthy ones of five fields in a
\* fixed order, and costs.total_cost as the total.
displayCostDetails_part000(costs) ==
    LET Present(f) == Truthy(Get(costs, f[1]))
        shown == SelectSeq(costFields_part000, Present)
        currency == Get(costs, "currency")
    IN  [by         |-> "part_000",
         items      |-> [i \in 1..Len(shown) |->
                            [category |-> shown[i][2],
                             key      |-> shown[i][1],
                             value    |-> formatCurrency(Get(costs, shown[i][1]), currency)]],
         additional |-> [shown |-> FALSE],
         carDetails |-> carDetailsOf(costs),
         total      |-> formatCurrency(Get(costs, "total_cost"), currency)]

(***************************************************************************)
(* Numbers in template literals                                            *)
(***************************************************************************)
DigitChar(i) == <<"0", "1", "2", "3", "4", "5", "6", "7", "8", "9">>[i + 1]

RECURSIVE NatText(_)
NatText(n) == IF n < 10 THEN <<DigitChar(n)>> ELSE NatText(n \div 10) \o <<DigitChar(n % 10)>>

\* The k last decimal digits of n.
RECURSIVE LastDigits(_, _)
LastDigits(n, k) ==
    IF k = 0 THEN <<>> ELSE LastDigits(n \div 10, k - 1) \o <<DigitChar(n % 10)>>

\* The number of decimals a finite x is written with (x has a finite decimal
\* expansion of at most 6 places in the inputs considered).
Decimals(x) == CHOOSE k \in 0..6 :
                  /\ Pow10(k) % x.d = 0
                  /\ \A j \in 0..(k - 1) : Pow10(j) % x.d # 0

\* `${x}` for a number x.
NumberToText(x) ==
    CASE x.t = "nan" -> <<"N", "a", "N">>
      [] x.t = "inf" -> (IF x.n < 0 THEN <<"-">> ELSE <<>>) \o InfinityText
      [] OTHER ->
            LET k == Decimals(x)
                scaled == (Abs(x.n) * Pow10(k)) \div x.d
            IN  (IF x.n < 0 THEN <<"-">> ELSE <<>>)
                \o NatText(scaled \div Pow10(k))
                \o (IF k = 0 THEN <<>> ELSE <<".">> \o LastDigits(scaled % Pow10(k), k))

\* `${location.latitude},${location.longitude}`
LatLon(location) ==
    NumberToText(location.latitude) \o <<",">> \o NumberToText(location.longitude)

\* waypoints.join('|')
RECURSIVE Join(_)
Join(texts) ==
    IF Len(texts) = 0 THEN <<>>
    ELSE IF Len(texts) = 1 THEN texts[1]
    ELSE texts[1] \o <<"|">> \o Join(Tail(texts))

(***************************************************************************)
(* shareRoute                                                              *)
(***************************************************************************)
\* The travel mode table with a missing entry for the bicycle.
googleMapsMode_noBicycle(travelMode) ==
    LET table == [car |-> "driving", walking |-> "walking", bus |-> "transit",
                  train |-> "transit"]
    IN  IF travelMode \in DOMAIN table THEN table[travelMode] ELSE "driving"

\* The Google Maps travel mode of a transport type: a table, and 'driving'
\* for what the table does not hold.
googleMapsMode(travelMode) ==
    LET table == [car |-> "driving", walking |-> "walking", bicycle |-> "bicycling",
                  bus |-> "transit", train |-> "transit"]
    IN  IF travelMode \in DOMAIN table THEN table[travelMode] ELSE "driving"

\* The waypoint list with the destination taken from the last segment's start.
waypointsOf_lastStart(route, stops) ==
    LET firstSegment == route.segments[1]
        lastSegment == route.segments[Len(route.segments)]
        stopWaypoints == IF stops.present /\ Len(stops.list) > 0
                         THEN [i \in 1..Len(stops.list) |-> LatLon(stops.list[i].location)]
                         ELSE <<>>
    IN  <<LatLon(firstSegment.start_location)>> \o stopWaypoints
            \o <<LatLon(lastSegment.start_location)>>

\* The waypoints of shareRoute before origin and destination are split off:
\* the first segment's start, the stops, the last segment's end.
waypointsOf(route, stops) ==
    LET firstSegment == route.segments[1]
        lastSegment == route.segments[Len(route.segments)]
        stopWaypoints == IF stops.present /\ Len(stops.list) > 0
                         THEN [i \in 1..Len(stops.list) |-> LatLon(stops.list[i].location)]
                         ELSE <<>>
    IN  <<LatLon(firstSegment.start_location)>> \o stopWaypoints
            \o <<LatLon(lastSegment.end_location)>>

UrlBase == <<"https://www.google.com/maps/dir/?api=1">>

\* The URL shareRoute opens for the stored route, as the pieces it is made of.
googleMapsUrl(route, stops, travelMode) ==
    LET all == waypointsOf(route, stops)
        origin == Head(all)
        destination == all[Len(all)]
        waypoints == SubSeq(all, 2, Len(all) - 1)
        waypointsParam == IF Len(waypoints) > 0
                          THEN <<"&waypoints=">> \o Join(waypoints)
                          ELSE <<>>
    IN  UrlBase \o <<"&origin=">> \o origin \o <<"&destination=">> \o destination
            \o waypointsParam \o <<"&travelmode=", googleMapsMode(travelMode)>>

\* showError(message): the message is put into #errorMessage and shown.
showError(message) == [text |-> message, shown |-> TRUE]

NoTimers == [started |-> 0, pending |-> {}]

\* The setTimeout of showError: one more timeout is due, numbered by the call
\* that started it.
setTimeout(t) == [started |-> t.started + 1, pending |-> t.pending \cup {t.started + 1}]

NoData == [present |-> FALSE]

\* shareRoute building its waypoints in the stored stops array itself: the
\* shift() and pop() then take the first and the last stop out of the result.
ShareRoute_inPlace ==
    /\ ~shareButtonHidden
    /\ currentRouteData.present
    /\ Len(currentRouteData.route.segments) > 0
    /\ opened' = Append(opened,
                        [url  |-> googleMapsUrl(currentRouteData.route,
                                                currentRouteData.stops,
                                                transportationType),
                         data |-> currentRouteData,
                         mode |-> transportationType])
    /\ currentRouteData' =
          IF currentRouteData.stops.present /\ Len(currentRouteData.stops.list) > 0
          THEN [currentRouteData EXCEPT !.stops.list = Tail(@)]
          ELSE currentRouteData
    /\ UNCHANGED <<formVars, fuelVars, errorMessage, uncaught, revision, pending, panels, map,
                   shareButtonHidden, inflight, sent, timers>>

\* The click handler of #shareRouteButton.  With no segment in the stored
\* route, route.segments[0] is undefined and reading its start_location throws.
ShareRoute ==
    /\ ~shareButtonHidden
    /\ IF ~currentRouteData.present
       THEN /\ errorMessage' = showError(<<"No route available to share">>)
            /\ timers' = setTimeout(timers)
            /\ UNCHANGED <<opened, uncaught>>
       ELSE IF Len(currentRouteData.route.segments) = 0
       THEN /\ uncaught' = Append(uncaught, "TypeError in shareRoute")
            /\ UNCHANGED <<opened, errorMessage, timers>>
       ELSE /\ opened' = Append(opened,
                            [url  |-> googleMapsUrl(currentRouteData.route,
                                                    currentRouteData.stops,
                                                    transportationType),
                             data |-> currentRouteData,
                             mode |-> transportationType])
            /\ UNCHANGED <<errorMessage, uncaught, timers>>
    /\ UNCHANGED <<formVars, fuelVars, revision, pending, currentRouteData, panels, map,
                   shareButtonHidden, inflight, sent>>

(***************************************************************************)
(* displayResults                                                          *)
(***************************************************************************)
NoPanels ==
    [routeDetails |-> [shown |-> FALSE], stopsDetails |-> [shown |-> FALSE],
     weatherDetails |-> [shown |-> FALSE], costsDetails |-> [shown |-> FALSE],
     healthDetails |-> [shown |-> FALSE]]

NoMap == [routeLayer |-> 0, markersLayer |-> 0, onMap |-> {}, created |-> 0]

\* clearMap() without its second if: the markers layer stays on the map.
clearMap_routeOnly(m) == [m EXCEPT !.onMap = m.onMap \ {m.routeLayer}]

\* clearMap(): the layers routeLayer and markersLayer name leave the map.
clearMap(m) == [m EXCEPT !.onMap = m.onMap \ {m.routeLayer, m.markersLayer}]

\* displayRoute(route): two new layer groups replace the old ones and are put
\* on the map, unless the route has no segment: then the read of
\* firstSegment.start_location throws once the new groups are assigned.
displayRoute(m, route) ==
    LET c == clearMap(m)
        made == [c EXCEPT !.routeLayer = c.created + 1, !.markersLayer = c.created + 2,
                          !.created = c.created + 2]
    IN  IF Len(route.segments) = 0 THEN made
        ELSE [made EXCEPT !.onMap = made.onMap \cup {made.routeLayer, made.markersLayer}]

\* A weather object has an origin and a destination, each absent or a record
\* that says whether it carries weather.current and weather.forecast.
NoSide == [present |-> FALSE]

\* createWeatherCard reads locationData.weather.current.temperature: a side
\* without current conditions throws before the container is written.
weatherCardThrows(weather) ==
    \/ weather.origin.present /\ ~weather.origin.current
    \/ weather.destination.present /\ ~weather.destination.current

\* createWeatherChart reads forecast.times: a side without forecast throws
\* after the container is written.
weatherChartThrows(weather) ==
    \/ weather.origin.present /\ ~weather.origin.forecast
    \/ weather.destination.present /\ ~weather.destination.forecast

weatherThrows(weather) == weatherCardThrows(weather) \/ weatherChartThrows(weather)

\* displayWeatherDetails(weather): what #weatherDetails holds afterwards, old
\* being what it held before.
displayWeatherDetails(weather, old) ==
    IF ~weather.origin.present /\ ~weather.destination.present
    THEN [shown |-> TRUE, available |-> FALSE]
    ELSE IF weatherCardThrows(weather) THEN old
    ELSE [shown |-> TRUE, available |-> TRUE, weather |-> weather]

\* The step of displayResults that throws for this data, "none" when none does.
ThrowsAt(data) ==
    IF Len(data.route.segments) = 0 THEN "displayRoute"
    ELSE IF revision = "app.js" /\ data.weather.present /\ weatherThrows(data.weather)
    THEN "displayWeatherDetails"
    ELSE IF ~data.costs.present THEN "displayCostDetails"
    ELSE IF ~data.health.present THEN "displayHealthDetails"
    ELSE "none"

\* The response at the head of pending is handled: displayResults(data), and
\* the catch of the submit handler when a step throws.
DisplayResults ==
    /\ Len(pending) > 0
    /\ Head(pending).present
    /\ LET data == Head(pending)
           at == ThrowsAt(data)
           costsPanel == IF revision = "app.js"
                         THEN displayCostDetails(data.costs.entries)
                         ELSE displayCostDetails_part000(data.costs.entries)
       IN  /\ pending' = Tail(pending)
           /\ currentRouteData' = data
           /\ map' = displayRoute(clearMap(map), data.route)
           /\ panels' =
                 IF at = "displayRoute" THEN panels
                 ELSE [panels EXCEPT
                         !.routeDetails = [shown |-> TRUE, route |-> data.route],
                         !.stopsDetails =
                             IF data.stops.present /\ Len(data.stops.list) > 0
                             THEN [shown |-> TRUE, stops |-> data.stops.list]
                             ELSE @,
                         !.weatherDetails =
                             IF revision = "app.js" /\ data.weather.present
                             THEN displayWeatherDetails(data.weather, @)
                             ELSE @,
                         !.costsDetails =
                             IF at \in {"displayWeatherDetails", "displayCostDetails"} THEN @
                             ELSE [shown |-> TRUE, costs |-> data.costs.entries,
                                   view |-> costsPanel],
                         !.healthDetails =
                             IF at \in {"displayWeatherDetails", "displayCostDetails",
                                       "displayHealthDetails"} THEN @
                             ELSE [shown |-> TRUE, health |-> data.health]]
           /\ shareButtonHidden' = IF at = "none" THEN FALSE ELSE shareButtonHidden
           /\ errorMessage' = IF at = "none" THEN errorMessage
                              ELSE showError(<<"Error planning trip: ", "TypeError">>)
           /\ timers' = IF at = "none" THEN timers ELSE setTimeout(timers)
    /\ UNCHANGED <<formVars, fuelVars, revision, opened, uncaught, inflight, sent>>

\* The application before any request: nothing stored, nothing shown.
AppIdle ==
    /\ revision = "app.js"
    /\ pending = <<>>
    /\ currentRouteData = NoData
    /\ panels = NoPanels
    /\ map = NoMap
    /\ shareButtonHidden = TRUE
    /\ opened = <<>>
    /\ uncaught = <<>>
    /\ inflight = <<>>
    /\ sent = 0
    /\ timers = NoTimers

(***************************************************************************)
(* Inputs of the fuel computations                                         *)
(***************************************************************************)
\* How many form fields differ from the values the page is loaded with.
MaxEdits == 2

\* Route lengths in km handed to the VehicleFormManager methods.
Distances == {0, 100, 300, 500}

\* Texts a user may leave in a numeric field: nothing, zero, a negative
\* number, and other valid figures.
FieldTexts(f) ==
    CASE f = "fuelConsumption" -> {<<>>, <<"0">>, <<"-", "5">>}
      [] f = "tankCapacity" -> {<<"0">>, <<"1", "2", ".", "5">>, <<"-", "5">>}
      [] f = "initialFuel" -> {<<"0">>, <<"5", "5">>, <<>>}
      [] f = "motorcycleFuelConsumption" -> {<<"0">>, <<"2", "0">>, <<"4">>}
      [] f = "motorcycleTankCapacity" -> {<<"0">>, <<>>, <<"-", "5">>}
      [] f = "motorcycleInitialFuel" -> {<<"0">>, <<>>, <<"2", "5">>}
      [] OTHER -> {}

FuelFields ==
    {"fuelConsumption", "tankCapacity", "initialFuel", "motorcycleFuelConsumption",
     "motorcycleTankCapacity", "motorcycleInitialFuel"}

\* The forms in which at most k fuel fields differ from the page's values.
RECURSIVE FormsEdited(_)
FormsEdited(k) ==
    IF k = 0 THEN {HtmlDefaults}
    ELSE LET prev == FormsEdited(k - 1)
         IN  prev \cup UNION {{[g EXCEPT ![f] = t] : t \in FieldTexts(f)} :
                                 g \in prev, f \in FuelFields}

FuelForms == FormsEdited(MaxEdits)

NoRet == [op |-> "none"]

NoError == [text |-> <<>>, shown |-> FALSE]

NoPlan == [active |-> FALSE]

InitFuel ==
    /\ transportationType \in {"empty", "car", "motorcycle", "bicycle"}
    /\ fields \in FuelForms
    /\ hidden = HiddenFor(transportationType)
    /\ ret = NoRet
    /\ routeResults = [defined |-> FALSE, rendered |-> FALSE]
    /\ errorMessage = NoError
    /\ plan = NoPlan
    /\ AppIdle

\* The methods read the form and write nothing: one call is observed per
\* behaviour, with its arguments, the passenger count the form held when it was
\* made, and what it returned.
CallCalculateFuelNeeded(d, type) ==
    /\ ret = NoRet
    /\ ret' = [op |-> "calculateFuelNeeded", distance |-> d, type |-> type,
               passengers |-> Value("passengers"),
               value |-> calculateFuelNeeded(Num(d), type)]
    /\ UNCHANGED <<formVars, routeResults, errorMessage, plan, appVars>>

CallCalculateRefuelingStops(d, type) ==
    /\ ret = NoRet
    /\ ret' = [op |-> "calculateRefuelingStops", distance |-> d, type |-> type,
               passengers |-> Value("passengers"),
               value |-> calculateRefuelingStops(Num(d), type)]
    /\ UNCHANGED <<formVars, routeResults, errorMessage, plan, appVars>>

NextFuel ==
    \/ \E d \in Distances, type \in TransportTypes : CallCalculateFuelNeeded(d, type)
    \/ \E d \in Distances, type \in TransportTypes : CallCalculateRefuelingStops(d, type)
    \/ SubmitPage

SpecFuel == InitFuel /\ [][NextFuel]_vars


(***************************************************************************)
(* The vehicle profile the form stands for, as the data model defines it:  *)
(* a field left empty is absent and takes its documented default, a field  *)
(* with a figure carries that figure.                                      *)
(***************************************************************************)
Entered(f, dflt) == IF Value(f) = <<>> THEN dflt ELSE parseFloat(Value(f))

Positive(x) == IsFinite(x) /\ x.n > 0

NonNegative(x) == IsFinite(x) /\ x.n >= 0

ProfileOf(type) ==
    IF type = "car"
    THEN [C  |-> Entered("fuelConsumption", Num(11)),
          T  |-> Entered("tankCapacity", Num(50)),
          F0 |-> Entered("initialFuel", Num(25))]
    ELSE [C  |-> Entered("motorcycleFuelConsumption", Num(45)),
          T  |-> Entered("motorcycleTankCapacity", Num(10)),
          F0 |-> Entered("motorcycleInitialFuel", Num(5))]

ValidProfile(p) == Positive(p.C) /\ Positive(p.T) /\ NonNegative(p.F0)

\* Liters for d km: d/100 x C for a car, d / E for a motorcycle.
ReferenceLiters(d, type, p) ==
    CASE type = "car" -> Fin(d * p.C.n, 100 * p.C.d)
      [] type = "motorcycle" -> Fin(d * p.C.d, p.C.n)
      [] OTHER -> Num(0)

\* max(0, ceil((needed - F0) / T)) for a valid profile.
ReferenceStops(needed, p) ==
    LET num == (needed.n * p.F0.d - p.F0.n * needed.d) * p.T.d
        den == needed.d * p.F0.d * p.T.n
        c   == -((-num) \div den)
    IN  Num(IF c > 0 THEN c ELSE 0)

\* The fields of the page script's estimate, read without defaults.
PageProfile ==
    [C  |-> parseFloat(Value("motorcycleFuelConsumption")),
     T  |-> parseFloat(Value("motorcycleTankCapacity")),
     F0 |-> parseFloat(Value("motorcycleInitialFuel"))]

\* C1: for every fueled profile with T > 0, F0 >= 0 and a positive consumption
\* figure, and every distance D, the aggregate estimate returns exactly
\* max(0, ceil((totalFuelNeeded - F0) / T)): calculateRefuelingStops for the
\* vehicle selected in the form, calculateMotorcycleRoute for its route length.
C1_AggregateEstimate ==
    /\ (/\ ret.op = "calculateRefuelingStops"
        /\ ret.type \in {"car", "motorcycle"}
        /\ ret.type = transportationType
        /\ ValidProfile(ProfileOf(ret.type)))
       => ret.value =
             ReferenceStops(ReferenceLiters(ret.distance, ret.type, ProfileOf(ret.type)),
                            ProfileOf(ret.type))
    /\ (/\ routeResults.defined
        /\ ValidProfile(PageProfile))
       => routeResults.refuelingStops =
             ReferenceStops(ReferenceLiters(PlaceholderDistanceKm, "motorcycle", PageProfile),
                            PageProfile)

\* The same statement for the profiles whose initial fuel is not zero: for
\* these the estimate is the documented one.
C1_NonEmptyTank ==
    /\ (/\ ret.op = "calculateRefuelingStops"
        /\ ret.type \in {"car", "motorcycle"}
        /\ ret.type = transportationType
        /\ ValidProfile(ProfileOf(ret.type))
        /\ Positive(ProfileOf(ret.type).F0))
       => ret.value =
             ReferenceStops(ReferenceLiters(ret.distance, ret.type, ProfileOf(ret.type)),
                            ProfileOf(ret.type))
    /\ (/\ routeResults.defined
        /\ ValidProfile(PageProfile))
       => routeResults.refuelingStops =
             ReferenceStops(ReferenceLiters(PlaceholderDistanceKm, "motorcycle", PageProfile),
                            PageProfile)

\* C3: calculateFuelNeeded(distanceKm, type) is (distanceKm / 100) x
\* fuelConsumptionLPer100km for a car, distanceKm / fuelEconomyKmPerL for a
\* motorcycle and 0 for every other transport type.
C3_FuelModel ==
    ret.op = "calculateFuelNeeded" =>
        CASE ret.type \in {"car", "motorcycle"} ->
                Positive(ProfileOf(ret.type).C) =>
                    ret.value = ReferenceLiters(ret.distance, ret.type, ProfileOf(ret.type))
          [] OTHER -> ret.value = Num(0)

\* A motorcycle, 300 km at the default 45 km/L: 6.667 L.
C3_Witness ==
    /\ ret.op = "calculateFuelNeeded"
    /\ ret.type = "motorcycle"
    /\ ret.distance = 300
    /\ Value("motorcycleFuelConsumption") = HtmlDefaults["motorcycleFuelConsumption"]
    /\ ret.value = Fin(20, 3)

\* C4: whenever the initial fuel covers the fuel needed (equality included) the
\* estimate is exactly 0 stops, and no input makes the estimate negative.
C4_ZeroStopBoundary ==
    /\ ret.op = "calculateRefuelingStops" =>
          /\ ~Less(ret.value, Num(0))
          /\ LET p == ProfileOf(transportationType)
             IN  (/\ transportationType \in {"car", "motorcycle"}
                  /\ Positive(p.T)
                  /\ Geq(p.F0, calculateFuelNeeded(Num(ret.distance), ret.type)))
                 => ret.value = Num(0)
    /\ routeResults.defined =>
          /\ ~Less(routeResults.refuelingStops, Num(0))
          /\ ~Less(routeResults.remainingFuel, Num(0))
          /\ (/\ Positive(PageProfile.T)
              /\ Geq(PageProfile.F0, Div(Num(PlaceholderDistanceKm), PageProfile.C)))
             => routeResults.refuelingStops = Num(0)

\* A car with 55 L on board needs exactly 55 L for 500 km: no stop.
C4_Witness ==
    /\ ret.op = "calculateRefuelingStops"
    /\ ret.type = "car"
    /\ transportationType = "car"
    /\ ret.distance = 500
    /\ ProfileOf("car").F0 = Num(55)
    /\ calculateFuelNeeded(Num(500), "car") = Num(55)
    /\ ret.value = Num(0)


(***************************************************************************)
(* RefuelingStopPlanner: the per-segment walk.  It runs on the server, whose *)
(* code is not among the sources; it is modelled from its description as a   *)
(* state machine {fuelLevel, position} with the transitions consume(segment) *)
(* and refuel(amount), in the observed reference behaviour: a refuel tops    *)
(* the tank off to tankCapacityL and the walk proceeds.  Its profile is the  *)
(* one the client sends: the specifications resolved from the form.          *)
(***************************************************************************)
MaxSegments == 3

\* How many form fields differ from the page's values in a planned trip.
MaxPlanEdits == 1

\* Segment lengths in km.
SegmentKm == {100, 300, 500}

RECURSIVE SeqsUpTo(_, _)
SeqsUpTo(S, k) ==
    IF k = 0 THEN {<<>>}
    ELSE LET prev == SeqsUpTo(S, k - 1)
         IN  prev \cup {Append(q, x) : q \in prev, x \in S}

Routes == SeqsUpTo(SegmentKm, MaxSegments) \ {<<>>}

RECURSIVE SumKm(_)
SumKm(route) == IF route = <<>> THEN 0 ELSE Head(route) + SumKm(Tail(route))

\* Liters one segment consumes under a profile (FuelConsumptionModel).
litersNeeded(km, profile) ==
    CASE profile.kind = "car" -> Mul(Div(Num(km), Num(100)), profile.consumption)
      [] profile.kind = "motorcycle" -> Div(Num(km), profile.consumption)
      [] OTHER -> Num(0)

\* The margin added to a top-up; none is documented.
RefuelBuffer == 0

\* Math.min on numbers that are not NaN.
Min(a, b) == IF Less(b, a) THEN b ELSE a

StartPlan(route, profile) ==
    [active |-> TRUE, route |-> route, profile |-> profile,
     fuelLevel |-> profile.initial_fuel, position |-> 0, cumulativeDistance |-> 0,
     stops |-> <<>>, refuelled |-> FALSE]

PlanDone == plan.active /\ plan.position = Len(plan.route)

CurrentNeeded == litersNeeded(plan.route[plan.position + 1], plan.profile)

\* consume(segment): the segment is driven, when the fuel on board covers it
\* or the tank has just been topped off.
Consume ==
    /\ plan.active /\ ~PlanDone
    /\ plan.refuelled \/ Geq(plan.fuelLevel, CurrentNeeded)
    /\ plan' = [plan EXCEPT !.fuelLevel = Sub(plan.fuelLevel, CurrentNeeded),
                            !.position = plan.position + 1,
                            !.cumulativeDistance =
                                plan.cumulativeDistance + plan.route[plan.position + 1],
                            !.refuelled = FALSE]
    /\ UNCHANGED <<formVars, ret, routeResults, errorMessage, appVars>>

\* refuel(amount): the fuel does not cover the segment; a Stop is inserted at
\* the segment's start and the tank is topped off.
Refuel ==
    /\ plan.active /\ ~PlanDone
    /\ ~plan.refuelled /\ ~Geq(plan.fuelLevel, CurrentNeeded)
    /\ plan' = [plan EXCEPT
          !.stops = Append(plan.stops,
                       [type |-> "refueling",
                        segment |-> plan.position + 1,
                        distanceFromStart |-> plan.cumulativeDistance,
                        fuelLevelBefore |-> plan.fuelLevel,
                        fuelNeeded |->
                            Min(plan.profile.tank_capacity,
                                Add(Sub(CurrentNeeded, plan.fuelLevel), Num(RefuelBuffer)))]),
          !.fuelLevel = plan.profile.tank_capacity,
          !.refuelled = TRUE]
    /\ UNCHANGED <<formVars, ret, routeResults, errorMessage, appVars>>

InitPlanner ==
    /\ transportationType \in {"car", "motorcycle"}
    /\ fields \in FormsEdited(MaxPlanEdits)
    /\ hidden = HiddenFor(transportationType)
    /\ ret = NoRet
    /\ routeResults = [defined |-> FALSE, rendered |-> FALSE]
    /\ errorMessage = NoError
    /\ \E route \in Routes : plan = StartPlan(route, getVehicleSpecifications)
    /\ AppIdle

\* The pre-trip estimate for the whole route of the plan.
EstimatePlan ==
    /\ plan.active
    /\ CallCalculateRefuelingStops(SumKm(plan.route), transportationType)

NextPlanner == Consume \/ Refuel \/ EstimatePlan

SpecPlanner == InitPlanner /\ [][NextPlanner]_vars

ValidSpecs(profile) ==
    /\ Positive(profile.consumption)
    /\ Positive(profile.tank_capacity)
    /\ NonNegative(profile.initial_fuel)

\* C2: for every route and every valid fueled profile the fuel level never
\* drops below zero between stops and never exceeds tankCapacityL immediately
\* after a refuel.
C2_FuelWithinTank ==
    (plan.active /\ ValidSpecs(plan.profile)) =>
        /\ Geq(plan.fuelLevel, Num(0))
        /\ plan.refuelled => Geq(plan.profile.tank_capacity, plan.fuelLevel)

\* The same statement for the routes none of whose segments needs more than a
\* full tank.
C2_SegmentsWithinRange ==
    (/\ plan.active
     /\ ValidSpecs(plan.profile)
     /\ \A i \in 1..Len(plan.route) :
           Geq(plan.profile.tank_capacity, litersNeeded(plan.route[i], plan.profile)))
    =>  /\ Geq(plan.fuelLevel, Num(0))
        /\ plan.refuelled => Geq(plan.profile.tank_capacity, plan.fuelLevel)

\* C5: when the initial fuel covers the sum of the per-segment liters, the
\* per-segment walk inserts no stop and the aggregate estimate is 0.
C5_ZeroStopAgreement ==
    (/\ plan.active
     /\ ValidSpecs(plan.profile)
     /\ Geq(plan.profile.initial_fuel, litersNeeded(SumKm(plan.route), plan.profile)))
    =>  /\ plan.stops = <<>>
        /\ ret.op = "calculateRefuelingStops" => ret.value = Num(0)

\* A walk over two segments finished with no stop, and the estimate made.
C5_Witness ==
    /\ PlanDone
    /\ Len(plan.route) >= 2
    /\ ValidSpecs(plan.profile)
    /\ plan.fuelLevel = Num(0)
    /\ plan.stops = <<>>
    /\ ret.op = "calculateRefuelingStops"
    /\ ret.value = Num(0)

(***************************************************************************)
(* Responses of the planning service handled by displayResults             *)
(***************************************************************************)
Loc(lat, lon) == [latitude |-> lat, longitude |-> lon]

\* A route over the given points: one segment between each two neighbours.
RouteOver(points) ==
    [segments |-> [i \in 1..(Len(points) - 1) |->
                      [start_location |-> points[i], end_location |-> points[i + 1]]]]

NoStops == [present |-> FALSE]

Response(route, stops, costs) ==
    [present |-> TRUE, route |-> route, stops |-> stops,
     costs |-> [present |-> TRUE, entries |-> costs],
     weather |-> [present |-> FALSE], health |-> [present |-> TRUE]]

\* The optional entry of a cost object: absent, or the key with a value.
EntryOf(key, values) == {<<>>} \cup {<<<<key, v>>>> : v \in values}

\* Cost objects: the fields in the order the service writes them, each one
\* absent or with one of a few values; insurance_cost is a key neither
\* revision knows.
CostInputs ==
    {f \o g \o u \o t \o c :
        f \in EntryOf("fuel_cost", {Null, Num(0), Num(20), Num(100)}),
        g \in EntryOf("food_cost", {Num(0), Num(20), Num(-20), Num(50)}),
        u \in EntryOf("insurance_cost", {Num(30)}),
        t \in EntryOf("total_cost", {Null, Num(0), Num(20), Num(100), Num(120)}),
        c \in EntryOf("currency", {Str("EUR")})}

\* What #passengers may hold (min="1").
PassengerTexts == {<<"1">>, <<"2">>, <<"1", "0">>}

InitCost ==
    /\ transportationType \in {"car", "bus"}
    /\ fields \in {[HtmlDefaults EXCEPT !["passengers"] = p] : p \in PassengerTexts}
    /\ hidden = HiddenFor(transportationType)
    /\ ret = NoRet
    /\ routeResults = [defined |-> FALSE, rendered |-> FALSE]
    /\ errorMessage = NoError
    /\ plan = NoPlan
    /\ revision \in Revisions
    /\ pending \in {<<Response(RouteOver(<<Loc(Num(1), Num(2)), Loc(Num(5), Num(6))>>),
                               NoStops, c)>> : c \in CostInputs}
    /\ currentRouteData = NoData
    /\ panels = NoPanels
    /\ map = NoMap
    /\ shareButtonHidden = TRUE
    /\ opened = <<>>
    /\ uncaught = <<>>
    /\ inflight = <<>>
    /\ sent = 0
    /\ timers = NoTimers

MaxShares == 1

NextApp ==
    \/ DisplayResults
    \/ (Len(opened) + Len(uncaught) < MaxShares /\ ShareRoute)

SpecCost == InitCost /\ [][NextApp]_vars

(***************************************************************************)
(* The cost breakdown against its contract                                 *)
(***************************************************************************)
KnownCategories ==
    {"fuel_cost", "ticket_cost", "food_cost", "water_cost", "accommodation_cost",
     "toll_cost", "parking_cost", "maintenance_cost", "rest_stop_cost", "other_cost"}

CostKeys == KnownCategories \cup {"insurance_cost", "total_cost", "currency"}

IsNumber(v) == v.t \in {"fin", "inf", "nan"}

\* An input supplies a total when it has a total_cost that is a number.
Supplied(costs) == IsNumber(Get(costs, "total_cost"))

\* The sum of the itemized categories of a cost object.
RECURSIVE ItemizedSum(_)
ItemizedSum(costs) ==
    IF costs = <<>> THEN Num(0)
    ELSE LET e == Head(costs)
         IN  IF e[1] \in KnownCategories /\ IsNumber(e[2])
             THEN Add(e[2], ItemizedSum(Tail(costs)))
             ELSE ItemizedSum(Tail(costs))

CostsShown == panels.costsDetails.shown

\* C6: whenever the supplied total exceeds the sum of the itemized
\* categories, the breakdown shows an unexplained-cost entry equal to the
\* total minus the sum.
C6_Reconciliation ==
    CostsShown =>
        LET costs == panels.costsDetails.costs
            view == panels.costsDetails.view
            total == Get(costs, "total_cost")
        IN  (Supplied(costs) /\ Less(ItemizedSum(costs), total)) =>
                /\ view.additional.shown
                /\ view.additional.value.amount = toFixed(Sub(total, ItemizedSum(costs)), 2)

\* C6, for the revision that has the entry and a positive total: the
\* difference is shown.
C6_LatestRevisionPositiveTotal ==
    (CostsShown /\ revision = "app.js") =>
        LET costs == panels.costsDetails.costs
            view == panels.costsDetails.view
            total == Get(costs, "total_cost")
        IN  (Supplied(costs) /\ Less(Num(0), total) /\ Less(ItemizedSum(costs), total)) =>
                /\ view.additional.shown
                /\ view.additional.value.amount = toFixed(Sub(total, ItemizedSum(costs)), 2)

\* C7: the total shown is the supplied total whenever the input has one, and
\* the sum of the itemized categories only when it has none.
C7_AuthoritativeTotal ==
    (CostsShown /\ revision = "app.js") =>
        LET costs == panels.costsDetails.costs
            view == panels.costsDetails.view
        IN  view.total.amount =
                toFixed(IF Supplied(costs) THEN Get(costs, "total_cost")
                        ELSE ItemizedSum(costs), 2)

\* C7, for totals other than 0: the rule holds.
C7_NonZeroTotal ==
    (CostsShown /\ revision = "app.js") =>
        LET costs == panels.costsDetails.costs
            view == panels.costsDetails.view
        IN  Get(costs, "total_cost") # Num(0) =>
                view.total.amount =
                    toFixed(IF Supplied(costs) THEN Get(costs, "total_cost")
                            ELSE ItemizedSum(costs), 2)

\* C8: the breakdown has an item for a cost field exactly when the field is a
\* known category whose value is not null, undefined or 0; total_cost,
\* currency and unknown keys are never items.
C8_ItemizedIffKnownNonZero ==
    (CostsShown /\ revision = "app.js") =>
        LET costs == panels.costsDetails.costs
            items == panels.costsDetails.view.items
        IN  /\ \A k \in CostKeys :
                  (\E i \in 1..Len(items) : items[i].key = k)
                      <=> /\ k \in KnownCategories
                          /\ Get(costs, k) \notin {Null, Undefined, Num(0)}
            /\ \A i \in 1..Len(items) :
                  /\ items[i].key \in CostKeys \ {"insurance_cost", "total_cost", "currency"}
                  /\ items[i].value.amount = toFixed(Get(costs, items[i].key), 2)
            /\ \A i, j \in 1..Len(items) : items[i].key = items[j].key => i = j

\* A breakdown that shows one field and leaves out a zero, an unknown key and
\* the total.
C8_Witness ==
    /\ CostsShown
    /\ revision = "app.js"
    /\ Get(panels.costsDetails.costs, "fuel_cost") = Num(0)
    /\ Get(panels.costsDetails.costs, "food_cost") = Num(20)
    /\ Get(panels.costsDetails.costs, "insurance_cost") = Num(30)
    /\ Get(panels.costsDetails.costs, "total_cost") = Num(120)
    /\ Len(panels.costsDetails.view.items) = 1
    /\ panels.costsDetails.view.items[1].key = "food_cost"

(***************************************************************************)
(* Routes shared as a link                                                 *)
(***************************************************************************)
MaxLegs == 2

MaxStops == 2

EndPoints == {Loc(Num(1), Num(2)), Loc(Num(3), Num(4)), Loc(Num(5), Num(6))}

StopPoints == {Loc(Num(3), Num(4)), Loc(Fin(223, 4), Fin(-1, 2))}

\* The routes of one to MaxLegs segments between the end points.
SharedRoutes ==
    {RouteOver(points) :
        points \in UNION {[1..(n + 1) -> EndPoints] : n \in 1..MaxLegs}}

\* stops absent, or a list of up to MaxStops stops.
SharedStops ==
    {NoStops} \cup
    {[present |-> TRUE, list |-> [i \in 1..Len(at) |-> [location |-> at[i]]]] :
        at \in UNION {[1..n -> StopPoints] : n \in 0..MaxStops}}

InitShare ==
    /\ transportationType \in TransportTypes
    /\ fields = HtmlDefaults
    /\ hidden = HiddenFor(transportationType)
    /\ ret = NoRet
    /\ routeResults = [defined |-> FALSE, rendered |-> FALSE]
    /\ errorMessage = NoError
    /\ plan = NoPlan
    /\ revision \in Revisions
    /\ pending \in {<<Response(r, st, <<<<"total_cost", Num(120)>>>>)>> :
                       r \in SharedRoutes, st \in SharedStops}
    /\ currentRouteData = NoData
    /\ panels = NoPanels
    /\ map = NoMap
    /\ shareButtonHidden = TRUE
    /\ opened = <<>>
    /\ uncaught = <<>>
    /\ inflight = <<>>
    /\ sent = 0
    /\ timers = NoTimers

SpecShare == InitShare /\ [][NextApp]_vars

(***************************************************************************)
(* The share link against its contract                                     *)
(***************************************************************************)
\* The coordinates of the stops, in their order, with '|' between them.
RECURSIVE StopsInOrder(_)
StopsInOrder(list) ==
    IF Len(list) = 1 THEN LatLon(list[1].location)
    ELSE LatLon(list[1].location) \o <<"|">> \o StopsInOrder(Tail(list))

HasStops(data) == data.stops.present /\ data.stops.list # <<>>

\* The query of a link: what follows the base, the travel mode left out.
QueryOf(url) == SubSeq(url, Len(UrlBase) + 1, Len(url) - 2)

\* C9: the link has the first segment's start as origin, the last segment's
\* end as destination and the stops in their order, joined by '|', as
\* waypoints; without stops it has no waypoints parameter; origin (1,2), one
\* stop (3,4) and destination (5,6) give origin=1,2&destination=5,6&waypoints=3,4.
C9_ShareLinkOrder ==
    \A k \in 1..Len(opened) :
        LET data == opened[k].data
            url == opened[k].url
            segments == data.route.segments
            origin == segments[1].start_location
            destination == segments[Len(segments)].end_location
        IN  /\ SubSeq(url, 1, Len(UrlBase)) = UrlBase
            /\ QueryOf(url) =
                  <<"&origin=">> \o LatLon(origin)
                      \o <<"&destination=">> \o LatLon(destination)
                      \o (IF HasStops(data)
                          THEN <<"&waypoints=">> \o StopsInOrder(data.stops.list)
                          ELSE <<>>)
            /\ ~HasStops(data) => \A i \in 1..Len(url) : url[i] # "&waypoints="
            /\ ( /\ origin = Loc(Num(1), Num(2))
                 /\ destination = Loc(Num(5), Num(6))
                 /\ data.stops = [present |-> TRUE,
                                  list |-> <<[location |-> Loc(Num(3), Num(4))]>>] )
               => QueryOf(url) = <<"&origin=", "1", ",", "2", "&destination=", "5", ",", "6",
                                   "&waypoints=", "3", ",", "4">>

\* A link for a route of two segments from (1,2) to (5,6) with two different
\* stops, the second one (3,4).
C9_Witness ==
    /\ Len(opened) = 1
    /\ Len(opened[1].data.route.segments) = 2
    /\ opened[1].data.route.segments[1].start_location = Loc(Num(1), Num(2))
    /\ opened[1].data.route.segments[2].end_location = Loc(Num(5), Num(6))
    /\ opened[1].data.route.segments[1].end_location = Loc(Num(3), Num(4))
    /\ opened[1].data.stops.present
    /\ Len(opened[1].data.stops.list) = 2
    /\ opened[1].data.stops.list[1].location = Loc(Fin(223, 4), Fin(-1, 2))
    /\ opened[1].data.stops.list[2].location = Loc(Num(3), Num(4))
    /\ QueryOf(opened[1].url) =
          <<"&origin=", "1", ",", "2", "&destination=", "5", ",", "6", "&waypoints=",
            "5", "5", ".", "7", "5", ",", "-", "0", ".", "5", "|", "3", ",", "4">>

\* C10: the travel mode of the link is driving for a car, walking for
\* walking, bicycling for a bicycle, transit for bus and train, and driving
\* for every other transport type.
C10_TravelMode ==
    \A k \in 1..Len(opened) :
        LET url == opened[k].url
            type == opened[k].mode
        IN  /\ url[Len(url) - 1] = "&travelmode="
            /\ url[Len(url)] =
                  CASE type = "car" -> "driving"
                    [] type = "walking" -> "walking"
                    [] type = "bicycle" -> "bicycling"
                    [] type \in {"bus", "train"} -> "transit"
                    [] type \in {"motorcycle", "plane", "sea", "empty"} -> "driving"

\* A link opened for a bicycle, or for a transport type the table
\* does not hold.
C10_Witness ==
    /\ Len(opened) = 1
    /\ opened[1].mode \in {"bicycle", "sea"}
    /\ opened[1].url[Len(opened[1].url)] \in {"bicycling", "driving"}
    /\ (opened[1].mode = "bicycle") = (opened[1].url[Len(opened[1].url)] = "bicycling")

(***************************************************************************)
(* The submit handler of the application script                            *)
(***************************************************************************)
MaxSubmits == 2

\* How often the submit handler may reject the form for its missing type.
MaxErrors == 2

\* formData.car_specifications, as the submit handler fills it.
car_specifications ==
    [kind           |-> "car",
     model          |-> OrText(Value("carModel"), <<"Standard 1.6L">>),
     engine         |-> Or(parseFloat(Value("engineVolume")), Fin(16, 10)),
     consumption    |-> Or(parseFloat(Value("fuelConsumption")), Num(11)),
     fuel_type      |-> OrText(Value("fuelType"), <<"gasoline">>),
     tank_capacity  |-> Or(parseFloat(Value("tankCapacity")), Num(50)),
     initial_fuel   |-> Or(parseFloat(Value("initialFuel")), Num(25)),
     base_mass      |-> Num(1200),
     passenger_mass |-> Num(75)]

\* The body of the request; car_specifications is there for a car only.
formData ==
    [transportation_type |-> transportationType,
     passengers          |-> parseInt(Value("passengers")),
     car_specifications  |-> IF transportationType = "car" THEN car_specifications
                             ELSE [kind |-> "undefined"]]

\* The submit handler up to its first await: the validation of the transport
\* type, then the request is sent.
SubmitApp ==
    /\ transportationType # "empty" => sent < MaxSubmits
    /\ transportationType = "empty" => timers.started < MaxErrors
    /\ IF transportationType = "empty"
       THEN /\ errorMessage' = showError(<<"Please select a transportation type">>)
            /\ timers' = setTimeout(timers)
            /\ UNCHANGED <<inflight, sent>>
       ELSE /\ inflight' = Append(inflight, [id |-> sent + 1, formData |-> formData])
            /\ sent' = sent + 1
            /\ UNCHANGED <<errorMessage, timers>>
    /\ UNCHANGED <<formVars, fuelVars, revision, pending, currentRouteData, panels, map,
                   shareButtonHidden, opened, uncaught>>

(***************************************************************************)
(* Profile resolution                                                      *)
(***************************************************************************)
\* getVehicleSpecifications() is called and what it returns is kept.
ResolveProfile ==
    /\ ret = NoRet
    /\ ret' = [op |-> "getVehicleSpecifications", value |-> getVehicleSpecifications]
    /\ UNCHANGED <<formVars, routeResults, errorMessage, plan, appVars>>

\* Car forms: every field as the page has it, empty, or with another entry.
CarForms ==
    {[HtmlDefaults EXCEPT !["carModel"] = a, !["engineVolume"] = b,
                          !["fuelConsumption"] = c, !["fuelType"] = d,
                          !["tankCapacity"] = e, !["initialFuel"] = f] :
        a \in {<<"Standard 1.6L">>, <<>>},
        b \in {<<"1", ".", "6">>, <<>>, <<"2">>},
        c \in {<<"1", "1", ".", "0">>, <<>>, <<"-", "5">>},
        d \in {<<"gasoline">>, <<"diesel">>},
        e \in {<<"5", "0", ".", "0">>, <<>>, <<"-", "5">>, <<"0">>},
        f \in {<<"2", "5", ".", "0">>, <<>>, <<"0">>}}

MotorcycleForms ==
    {[HtmlDefaults EXCEPT !["engineCC"] = a, !["motorcycleFuelConsumption"] = b,
                          !["motorcycleTankCapacity"] = c,
                          !["motorcycleInitialFuel"] = d, !["motorcycleFuelType"] = e] :
        a \in {<<"1", "2", "5">>, <<>>, <<"-", "5">>},
        b \in {<<"4", "5", ".", "0">>, <<>>, <<"0">>},
        c \in {<<"1", "0", ".", "0">>, <<>>, <<"2", "0">>},
        d \in {<<"5", ".", "0">>, <<>>, <<"0">>},
        e \in {<<"92">>, <<"95">>}}

InitProfile ==
    /\ \/ transportationType = "car" /\ fields \in CarForms
       \/ transportationType = "motorcycle" /\ fields \in MotorcycleForms
       \/ transportationType = "bus" /\ fields = HtmlDefaults
    /\ hidden = HiddenFor(transportationType)
    /\ ret = NoRet
    /\ routeResults = [defined |-> FALSE, rendered |-> FALSE]
    /\ errorMessage = NoError
    /\ plan = NoPlan
    /\ AppIdle

NextProfile == ResolveProfile \/ SubmitApp

SpecProfile == InitProfile /\ [][NextProfile]_vars

(***************************************************************************)
(* Profile resolution against its contract                                 *)
(***************************************************************************)
\* The profile the contract resolves the form to: the default for an empty
\* field, what was entered for every other.
ContractProfile(type) ==
    IF type = "car"
    THEN [kind           |-> "car",
          model          |-> IF Value("carModel") = <<>> THEN <<"Standard 1.6L">>
                             ELSE Value("carModel"),
          engine         |-> Entered("engineVolume", Fin(16, 10)),
          consumption    |-> Entered("fuelConsumption", Num(11)),
          fuel_type      |-> Value("fuelType"),
          tank_capacity  |-> Entered("tankCapacity", Num(50)),
          initial_fuel   |-> Entered("initialFuel", Num(25)),
          base_mass      |-> Num(1200),
          passenger_mass |-> Num(75)]
    ELSE [kind           |-> "motorcycle",
          model          |-> <<>>,
          engine         |-> Entered("engineCC", Num(125)),
          consumption    |-> Entered("motorcycleFuelConsumption", Num(45)),
          fuel_type      |-> Value("motorcycleFuelType"),
          tank_capacity  |-> Entered("motorcycleTankCapacity", Num(10)),
          initial_fuel   |-> Entered("motorcycleInitialFuel", Num(5)),
          base_mass      |-> Num(150),
          passenger_mass |-> Num(75)]

Resolved == ret.op = "getVehicleSpecifications" /\ ret.value.kind # "null"

NumericFields(type) ==
    IF type = "car" THEN {"engineVolume", "fuelConsumption", "tankCapacity", "initialFuel"}
    ELSE {"engineCC", "motorcycleFuelConsumption", "motorcycleTankCapacity",
          "motorcycleInitialFuel"}

\* C11: every absent field resolves to its documented default, and exactly
\* the absent fields do: a provided field resolves to what was provided, in
\* the profile getVehicleSpecifications returns and in the car_specifications
\* of a request.
C11_AbsentFieldsTakeDefaults ==
    /\ Resolved => ret.value = ContractProfile(transportationType)
    /\ \A i \in 1..Len(inflight) :
          inflight[i].formData.car_specifications.kind = "car" =>
              inflight[i].formData.car_specifications = ContractProfile("car")

\* C11, for the forms in which no numeric field holds 0.
C11_NoZeroEntered ==
    (\A f \in NumericFields(transportationType) : parseFloat(Value(f)) # Num(0)) =>
        /\ Resolved => ret.value = ContractProfile(transportationType)
        /\ \A i \in 1..Len(inflight) :
              inflight[i].formData.car_specifications.kind = "car" =>
                  inflight[i].formData.car_specifications = ContractProfile("car")

\* C12: when a provided numeric field is negative, resolution fails with a
\* ValidationError: no profile is returned and no request carries one.
C12_ValidationError ==
    (\E f \in NumericFields(transportationType) :
        Value(f) # <<>> /\ Less(parseFloat(Value(f)), Num(0)))
    =>  /\ Resolved => ret.value.kind = "ValidationError"
        /\ inflight = <<>>

\* C13: a profile the fuel formulas work on has a positive consumption (or
\* economy), a positive tank capacity and a non-negative initial fuel: in
\* calculateRefuelingStops, and in the estimate of the page script.
C13_ValidDivisors ==
    /\ (ret.op = "calculateRefuelingStops" /\ getVehicleSpecifications.kind # "null")
          => ValidSpecs(getVehicleSpecifications)
    /\ routeResults.defined =>
          /\ Positive(parseFloat(Value("motorcycleFuelConsumption")))
          /\ Positive(parseFloat(Value("motorcycleTankCapacity")))
          /\ NonNegative(parseFloat(Value("motorcycleInitialFuel")))

(***************************************************************************)
(* Requests in flight and their answers                                    *)
(***************************************************************************)
\* The change event of #transportationType: the handler of app.js runs, then
\* the handler the page script registers on DOMContentLoaded.
SelectType(type) ==
    /\ transportationType' = type
    /\ hidden' = pageChangeHandler(appChangeHandler(hidden, type), type)
    /\ UNCHANGED <<fields, fuelVars, errorMessage, appVars>>

\* The result the service computes for a request; the request it answers is
\* kept with it.
Answer(req) ==
    [present |-> TRUE, request |-> req.id,
     route   |-> RouteOver(<<Loc(Num(1), Num(2)), Loc(Num(5), Num(6))>>),
     stops   |-> NoStops,
     costs   |-> [present |-> TRUE, entries |-> <<<<"total_cost", Num(100 * req.id)>>>>],
     weather |-> [present |-> FALSE],
     health  |-> [present |-> TRUE]]

\* The ways a request fails: a non-2xx response with or without a detail, and
\* a fetch that rejects.
Failures ==
    {[present |-> FALSE, kind |-> "status", detail |-> Str("No route found")],
     [present |-> FALSE, kind |-> "status", detail |-> Undefined],
     [present |-> FALSE, kind |-> "network", detail |-> Undefined]}

\* The fetch of a request in flight settles; the handler's continuation is
\* queued behind those of the requests settled before.
Settle(i, outcome) ==
    /\ i \in 1..Len(inflight)
    /\ pending' = Append(pending, outcome)
    /\ inflight' = SubSeq(inflight, 1, i - 1) \o SubSeq(inflight, i + 1, Len(inflight))
    /\ UNCHANGED <<formVars, fuelVars, errorMessage, revision, currentRouteData, panels, map,
                   shareButtonHidden, opened, uncaught, sent, timers>>

\* error.message with the detail left without its default.
failureMessage_detailOnly(outcome) ==
    IF outcome.kind = "status"
    THEN (IF outcome.detail.t = "str" THEN outcome.detail.s ELSE "undefined")
    ELSE "Failed to fetch"

\* error.message of what the try block throws for a failed request.
failureMessage(outcome) ==
    IF outcome.kind = "status"
    THEN Or(outcome.detail, Str("Failed to plan trip")).s
    ELSE "Failed to fetch"

\* The continuation of the submit handler for a failed request: the throw and
\* the catch.
HandleFailure ==
    /\ Len(pending) > 0
    /\ ~Head(pending).present
    /\ pending' = Tail(pending)
    /\ errorMessage' = showError(<<"Error planning trip: ", failureMessage(Head(pending))>>)
    /\ timers' = setTimeout(timers)
    /\ UNCHANGED <<formVars, fuelVars, revision, currentRouteData, panels, map,
                   shareButtonHidden, opened, uncaught, inflight, sent>>

TypesChosen == {"empty", "car", "bus"}

InitSubmit ==
    /\ transportationType = "empty"
    /\ fields = HtmlDefaults
    /\ hidden = HiddenFor(transportationType)
    /\ ret = NoRet
    /\ routeResults = [defined |-> FALSE, rendered |-> FALSE]
    /\ errorMessage = NoError
    /\ plan = NoPlan
    /\ AppIdle

NextSubmit ==
    \/ \E type \in TypesChosen : SelectType(type)
    \/ SubmitApp
    \/ SubmitPage
    \/ \E i \in 1..Len(inflight) :
          \E outcome \in {Answer(inflight[i])} \cup Failures : Settle(i, outcome)
    \/ DisplayResults
    \/ HandleFailure
    \/ (Len(opened) + Len(uncaught) < MaxShares /\ ShareRoute)

SpecSubmit == InitSubmit /\ [][NextSubmit]_vars

(***************************************************************************)
(* Submitting against its contract                                         *)
(***************************************************************************)
ResultsKept ==
    /\ currentRouteData' = currentRouteData
    /\ panels' = panels
    /\ routeResults' = routeResults
    /\ map' = map
    /\ shareButtonHidden' = shareButtonHidden

\* C14: a submit with no transport type selected shows the validation error,
\* sends no request and leaves the stored route and the displayed results as
\* they are, in the submit handler of the application and in that of the page.
C14_EmptyTypeRejected ==
    [][(transportationType = "empty" /\ (SubmitApp \/ SubmitPage)) =>
          /\ errorMessage' = showError(<<"Please select a transportation type">>)
          /\ inflight' = inflight
          /\ sent' = sent
          /\ pending' = pending
          /\ ResultsKept]_vars

\* C14, for the submit handler of the application script alone.
C14_ApplicationSubmit ==
    [][(transportationType = "empty" /\ SubmitApp) =>
          /\ errorMessage' = showError(<<"Please select a transportation type">>)
          /\ inflight' = inflight
          /\ sent' = sent
          /\ pending' = pending
          /\ ResultsKept]_vars

C18_LastSubmissionWins ==
    (/\ sent >= 2
     /\ inflight = <<>>
     /\ pending = <<>>
     /\ errorMessage = NoError
     /\ uncaught = <<>>)
    =>  /\ currentRouteData.present
        /\ currentRouteData.request = sent
        /\ panels.costsDetails.costs = <<<<"total_cost", Num(100 * sent)>>>>

(***************************************************************************)
(* Results with missing parts                                              *)
(***************************************************************************)
MaxResponses == 2

FullSide == [present |-> TRUE, current |-> TRUE, forecast |-> TRUE]

\* The weather objects of a result: absent, empty, one side or both, and
\* sides that lack the forecast or the current conditions.
WeatherInputs ==
    {[present |-> FALSE],
     [present |-> TRUE, origin |-> NoSide, destination |-> NoSide],
     [present |-> TRUE, origin |-> FullSide, destination |-> NoSide],
     [present |-> TRUE, origin |-> NoSide, destination |-> FullSide],
     [present |-> TRUE, origin |-> FullSide, destination |-> FullSide],
     [present |-> TRUE, origin |-> [FullSide EXCEPT !.forecast = FALSE],
      destination |-> FullSide],
     [present |-> TRUE, origin |-> FullSide,
      destination |-> [FullSide EXCEPT !.current = FALSE]]}

\* A result over the given points with the given weather; two points or more
\* make a route, fewer leave the segment list empty.
ResultOver(points, weather) ==
    [present |-> TRUE,
     route   |-> RouteOver(points),
     stops   |-> [present |-> TRUE, list |-> <<[location |-> Loc(Num(3), Num(4))]>>],
     costs   |-> [present |-> TRUE, entries |-> <<<<"total_cost", Num(120)>>>>],
     weather |-> weather,
     health  |-> [present |-> TRUE]]

RenderInputs ==
    {ResultOver(<<Loc(Num(1), Num(2)), Loc(Num(5), Num(6))>>, w) : w \in WeatherInputs}
    \cup {ResultOver(<<Loc(Num(1), Num(2))>>, [present |-> FALSE])}

InitRender ==
    /\ transportationType = "car"
    /\ fields = HtmlDefaults
    /\ hidden = HiddenFor(transportationType)
    /\ ret = NoRet
    /\ routeResults = [defined |-> FALSE, rendered |-> FALSE]
    /\ errorMessage = NoError
    /\ plan = NoPlan
    /\ revision \in Revisions
    /\ pending \in UNION {[1..n -> RenderInputs] : n \in 1..MaxResponses}
    /\ currentRouteData = NoData
    /\ panels = NoPanels
    /\ map = NoMap
    /\ shareButtonHidden = TRUE
    /\ opened = <<>>
    /\ uncaught = <<>>
    /\ inflight = <<>>
    /\ sent = 0
    /\ timers = NoTimers

SpecRender == InitRender /\ [][NextApp]_vars

\* C15: a result with an empty segment list is reported as an error and
\* raises no uncaught exception, neither when it is displayed nor when
\* shareRoute runs on it afterwards.
C15_EmptyRouteIsAnError ==
    /\ uncaught = <<>>
    /\ (currentRouteData.present /\ currentRouteData.route.segments = <<>>)
          => errorMessage.shown

\* C15, for displaying alone: the empty route is caught and shown as an error.
C15_DisplayReportsError ==
    (currentRouteData.present /\ currentRouteData.route.segments = <<>>)
        => errorMessage = showError(<<"Error planning trip: ", "TypeError">>)

WeatherPartial(weather) ==
    \/ ~weather.present
    \/ ~weather.origin.present
    \/ ~weather.destination.present
    \/ weatherThrows(weather)

\* C16: for every stored result with a route whose weather is absent or lacks
\* optional parts, the route, stops, costs and health of that result are
\* displayed and the share button is shown.
C16_PartialWeatherTolerated ==
    (/\ currentRouteData.present
     /\ currentRouteData.route.segments # <<>>
     /\ WeatherPartial(currentRouteData.weather))
    =>  /\ panels.routeDetails = [shown |-> TRUE, route |-> currentRouteData.route]
        /\ panels.stopsDetails = [shown |-> TRUE, stops |-> currentRouteData.stops.list]
        /\ panels.costsDetails.shown
        /\ panels.costsDetails.costs = currentRouteData.costs.entries
        /\ panels.healthDetails = [shown |-> TRUE, health |-> currentRouteData.health]
        /\ ~shareButtonHidden

\* C16, for weather that is absent, empty, or has one side only, each side
\* present being complete.
C16_AbsentWeatherTolerated ==
    (/\ currentRouteData.present
     /\ currentRouteData.route.segments # <<>>
     /\ WeatherPartial(currentRouteData.weather)
     /\ ~(currentRouteData.weather.present /\ weatherThrows(currentRouteData.weather)))
    =>  /\ panels.routeDetails = [shown |-> TRUE, route |-> currentRouteData.route]
        /\ panels.stopsDetails = [shown |-> TRUE, stops |-> currentRouteData.stops.list]
        /\ panels.costsDetails.shown
        /\ panels.costsDetails.costs = currentRouteData.costs.entries
        /\ panels.healthDetails = [shown |-> TRUE, health |-> currentRouteData.health]
        /\ ~shareButtonHidden

(***************************************************************************)
(* The order of the breakdown and the masses of a car journey              *)
(***************************************************************************)
Included(costs) ==
    {k \in KnownCategories : Get(costs, k) \notin {Null, Undefined, Num(0)}}

\* C19: the items of a displayed breakdown are in descending order of amount
\* and are a permutation of the included categories.
C19_DescendingOrder ==
    CostsShown =>
        LET items == panels.costsDetails.view.items
            costs == panels.costsDetails.costs
        IN  /\ \A i \in 1..(Len(items) - 1) :
                  Geq(Get(costs, items[i].key), Get(costs, items[i + 1].key))
            /\ {items[i].key : i \in 1..Len(items)} = Included(costs)
            /\ Len(items) = Cardinality(Included(costs))

\* C19, for the breakdown of app.js.
C19_LatestRevisionSorted ==
    (CostsShown /\ revision = "app.js") =>
        LET items == panels.costsDetails.view.items
            costs == panels.costsDetails.costs
        IN  /\ \A i \in 1..(Len(items) - 1) :
                  Geq(Get(costs, items[i].key), Get(costs, items[i + 1].key))
            /\ {items[i].key : i \in 1..Len(items)} = Included(costs)
            /\ Len(items) = Cardinality(Included(costs))

\* The number in the passengers field.
PassengerCount ==
    CASE Value("passengers") = <<"1">> -> 1
      [] Value("passengers") = <<"2">> -> 2
      [] Value("passengers") = <<"1", "0">> -> 10

\* The total a breakdown shows, from the cost object alone.
TotalOfCosts(costs) ==
    IF revision = "app.js"
    THEN toFixed(IF Truthy(Get(costs, "total_cost")) THEN Get(costs, "total_cost")
                 ELSE ItemizedSum(costs), 2)
    ELSE formatCurrency(Get(costs, "total_cost"), Get(costs, "currency")).amount

\* C20: for a car journey with p passengers the journey details give the
\* vehicle mass, p x passengerMassKg and baseMassKg + p x passengerMassKg of
\* the car profile; the total cost is determined by the cost object alone,
\* whatever the passenger count.
C20_TotalMass ==
    CostsShown =>
        LET view == panels.costsDetails.view
            p == Num(PassengerCount)
        IN  /\ transportationType = "car" =>
                  /\ Len(view.carDetails) >= 3
                  /\ view.carDetails[1] =
                        [label |-> "Vehicle mass", value |-> car_specifications.base_mass]
                  /\ view.carDetails[2] =
                        [label |-> "Passengers",
                         value |-> Mul(p, car_specifications.passenger_mass)]
                  /\ view.carDetails[3] =
                        [label |-> "Total mass",
                         value |-> Add(car_specifications.base_mass,
                                       Mul(p, car_specifications.passenger_mass))]
            /\ transportationType # "car" =>
                  \A i \in 1..Len(view.carDetails) :
                      view.carDetails[i].label \notin {"Vehicle mass", "Passengers", "Total mass"}
            /\ view.total.amount = TotalOfCosts(panels.costsDetails.costs)

\* A car journey with ten passengers: 1950 kg, and the supplied total shown.
C20_Witness ==
    /\ CostsShown
    /\ transportationType = "car"
    /\ Value("passengers") = <<"1", "0">>
    /\ panels.costsDetails.view.carDetails[3] = [label |-> "Total mass", value |-> Num(1950)]
    /\ Get(panels.costsDetails.costs, "total_cost") = Num(120)
    /\ panels.costsDetails.view.total.amount = Num(120)

(***************************************************************************)
(* Mass and fuel: the passenger count of the form is edited between fuel   *)
(* computations.  The base mass and the passenger mass are literals of     *)
(* getCarSpecifications / getMotorcycleSpecifications; the passenger count *)
(* is the only mass input a user can change.                               *)
(***************************************************************************)
\* The user types a passenger count into #passengers.
SetPassengers(text) ==
    /\ fields["passengers"] # text
    /\ fields' = [fields EXCEPT !["passengers"] = text]
    /\ UNCHANGED <<transportationType, hidden, fuelVars, errorMessage, appVars>>

InitMass ==
    /\ transportationType \in {"car", "motorcycle", "bus"}
    /\ fields \in FormsEdited(1)
    /\ hidden = HiddenFor(transportationType)
    /\ ret = NoRet
    /\ routeResults = [defined |-> FALSE, rendered |-> FALSE]
    /\ errorMessage = NoError
    /\ plan = NoPlan
    /\ AppIdle

NextMass ==
    \/ \E text \in PassengerTexts : SetPassengers(text)
    \/ \E d \in Distances, type \in TransportTypes : CallCalculateFuelNeeded(d, type)
    \/ \E d \in Distances, type \in TransportTypes : CallCalculateRefuelingStops(d, type)
    \/ SubmitPage

SpecMass == InitMass /\ [][NextMass]_vars

\* The estimate the page script would render for the form as it is.
PageEstimate ==
    calculateMotorcycleRoute(
        parseFloat(Value("engineCC")),
        parseFloat(Value("motorcycleFuelConsumption")),
        parseFloat(Value("motorcycleTankCapacity")),
        parseFloat(Value("motorcycleInitialFuel")),
        Value("motorcycleFuelType"))

MaxResults == 3

StopAt(lat, lon) == [location |-> Loc(Num(lat), Num(lon))]

\* A cost object whose second entry is the larger one.
SessionCosts ==
    <<<<"fuel_cost", Num(20)>>, <<"food_cost", Num(50)>>, <<"total_cost", Num(70)>>>>

SessionResult(points, stops, weather, health) ==
    [present |-> TRUE,
     route   |-> RouteOver(points),
     stops   |-> stops,
     costs   |-> [present |-> TRUE, entries |-> SessionCosts],
     weather |-> weather,
     health  |-> [present |-> health]]

\* What the continuation of a submit handler may find: a full result, results
\* without stops or weather, results one step of displayResults throws on, and
\* failed requests.
SessionInputs ==
    LET ab    == <<Loc(Num(1), Num(2)), Loc(Num(5), Num(6))>>
        two   == [present |-> TRUE, list |-> <<StopAt(7, 8), StopAt(3, 4)>>]
        none  == [present |-> TRUE, list |-> <<>>]
        both  == [present |-> TRUE, origin |-> FullSide, destination |-> FullSide]
        sides == [present |-> TRUE, origin |-> NoSide, destination |-> NoSide]
        part  == [present |-> TRUE, origin |-> [FullSide EXCEPT !.forecast = FALSE],
                  destination |-> FullSide]
    IN  {SessionResult(ab, two, both, TRUE),
         SessionResult(ab, NoStops, [present |-> FALSE], TRUE),
         SessionResult(ab, none, sides, TRUE),
         SessionResult(ab, two, part, TRUE),
         SessionResult(<<Loc(Num(1), Num(2))>>, two, both, TRUE),
         SessionResult(ab, two, both, FALSE),
         [present |-> FALSE, kind |-> "status", detail |-> Undefined],
         [present |-> FALSE, kind |-> "network", detail |-> Undefined]}

\* The k-th outcome of the session carries the number of its request.
Numbered(outcomes) ==
    [k \in 1..Len(outcomes) |->
        [f \in DOMAIN outcomes[k] \cup {"request"} |->
            IF f = "request" THEN k ELSE outcomes[k][f]]]

InitSession ==
    /\ transportationType = "car"
    /\ fields = HtmlDefaults
    /\ hidden = HiddenFor(transportationType)
    /\ ret = NoRet
    /\ routeResults = [defined |-> FALSE, rendered |-> FALSE]
    /\ errorMessage = NoError
    /\ plan = NoPlan
    /\ revision \in Revisions
    /\ pending \in {Numbered(o) : o \in UNION {[1..n -> SessionInputs] : n \in 1..MaxResults}}
    /\ currentRouteData = NoData
    /\ panels = NoPanels
    /\ map = NoMap
    /\ shareButtonHidden = TRUE
    /\ opened = <<>>
    /\ uncaught = <<>>
    /\ inflight = <<>>
    /\ sent = 0
    /\ timers = NoTimers

NextSession ==
    \/ DisplayResults
    \/ HandleFailure
    \/ (Len(opened) + Len(uncaught) < MaxShares /\ ShareRoute)

SpecSession == InitSession /\ [][NextSession]_vars

\* C22: derived results are never mutated after creation: the stored trip
\* result changes only when a response is taken from the queue, and is then
\* that response as received (segments, stops in their order, cost fields);
\* no rendering and no shareRoute call alters it, and what a panel keeps of a
\* result is what the result holds.
C22_ResultsNeverMutated ==
    [][/\ currentRouteData' # currentRouteData
            => /\ Len(pending) > 0
               /\ currentRouteData' = Head(pending)
       /\ (currentRouteData'.present /\ ThrowsAt(currentRouteData') = "none")
            => /\ panels'.routeDetails.route = currentRouteData'.route
               /\ panels'.costsDetails.costs = currentRouteData'.costs.entries]_vars

\* The full result was displayed and shared: its two stops are stored in the
\* order received, its cost entries in the order received although the
\* breakdown lists Food before Fuel.
C22_Witness ==
    /\ Len(opened) = 1
    /\ opened[1].data = currentRouteData
    /\ currentRouteData.stops.present
    /\ currentRouteData.stops.list = <<StopAt(7, 8), StopAt(3, 4)>>
    /\ currentRouteData.costs.entries = SessionCosts
    /\ revision = "app.js"
    /\ panels.costsDetails.view.items[1].key = "food_cost"

(***************************************************************************)
(* Repeated aggregation: displayCostDetails is called for one cost object  *)
(* after the other while the form is edited; the first call is kept for    *)
(* comparison with the later ones.                                         *)
(***************************************************************************)
MaxAggregations == 3

\* Cost objects aggregated in turn: an unsorted one without a total, one with
\* a total above its items, one with a negative item and a total of 0.
AggregatedCosts ==
    {<<<<"fuel_cost", Num(20)>>, <<"food_cost", Num(50)>>>>,
     <<<<"fuel_cost", Num(100)>>, <<"total_cost", Num(120)>>, <<"currency", Str("EUR")>>>>,
     <<<<"food_cost", Num(-20)>>, <<"insurance_cost", Num(30)>>, <<"total_cost", Num(0)>>>>}

\* displayCostDetails(costs) of the revision loaded: #costsDetails is
\* rewritten; ret keeps the input and the breakdown of the first call and
\* counts the calls.
CallDisplayCostDetails(costs) ==
    /\ ret.op \in {"none", "displayCostDetails"}
    /\ ret.op = "displayCostDetails" => ret.calls < MaxAggregations
    /\ LET view == IF revision = "app.js" THEN displayCostDetails(costs)
                   ELSE displayCostDetails_part000(costs)
       IN  /\ panels' = [panels EXCEPT !.costsDetails =
                            [shown |-> TRUE, costs |-> costs, view |-> view]]
           /\ ret' = IF ret = NoRet
                     THEN [op |-> "displayCostDetails", costs |-> costs, view |-> view,
                           calls |-> 1, between |-> 0]
                     ELSE [ret EXCEPT !.calls = @ + 1,
                                      !.between = IF costs = ret.costs THEN @ ELSE @ + 1]
    /\ UNCHANGED <<formVars, routeResults, plan, errorMessage, revision, pending,
                   currentRouteData, map, shareButtonHidden, opened, uncaught, inflight, sent,
                   timers>>

InitAggregate ==
    /\ transportationType \in {"car", "bus"}
    /\ fields = HtmlDefaults
    /\ hidden = HiddenFor(transportationType)
    /\ ret = NoRet
    /\ routeResults = [defined |-> FALSE, rendered |-> FALSE]
    /\ errorMessage = NoError
    /\ plan = NoPlan
    /\ revision \in Revisions
    /\ pending = <<>>
    /\ currentRouteData = NoData
    /\ panels = NoPanels
    /\ map = NoMap
    /\ shareButtonHidden = TRUE
    /\ opened = <<>>
    /\ uncaught = <<>>
    /\ inflight = <<>>
    /\ sent = 0
    /\ timers = NoTimers

NextAggregate ==
    \/ \E costs \in AggregatedCosts : CallDisplayCostDetails(costs)
    \/ \E text \in PassengerTexts : SetPassengers(text)
    \/ \E type \in {"car", "bus"} : SelectType(type)

SpecAggregate == InitAggregate /\ [][NextAggregate]_vars

C24_ShareLastCompleteResult ==
    /\ \A k \in 1..Len(opened) : ThrowsAt(opened[k].data) = "none"
    /\ ~shareButtonHidden => ThrowsAt(currentRouteData) = "none"

\* The same for requests that fail before displayResults is called: a network
\* error or a non-2xx response leaves the stored result alone.
C24_FailedRequestsKeepResult ==
    [][(Len(pending) > 0 /\ ~Head(pending).present /\ pending' = Tail(pending))
          => /\ currentRouteData' = currentRouteData
             /\ shareButtonHidden' = shareButtonHidden]_vars

\* C25: once displayResults(data) has returned, every panel reflects data
\* only: the stops panel shows the stops of data, and shows none of an earlier
\* result when data has no stops; the weather panel shows the weather of
\* data, and none of an earlier result when data has no weather.
C25_PanelsReflectData ==
    (currentRouteData.present /\ ThrowsAt(currentRouteData) = "none")
    => /\ panels.routeDetails.route = currentRouteData.route
       /\ panels.stopsDetails.shown
             => /\ currentRouteData.stops.present
                /\ panels.stopsDetails.stops = currentRouteData.stops.list
       /\ (panels.weatherDetails.shown /\ panels.weatherDetails.available)
             => /\ currentRouteData.weather.present
                /\ panels.weatherDetails.weather = currentRouteData.weather

\* The panels that displayResults always rewrites reflect the result just
\* displayed.
C25_RewrittenPanels ==
    (currentRouteData.present /\ ThrowsAt(currentRouteData) = "none")
    => /\ panels.routeDetails.route = currentRouteData.route
       /\ panels.costsDetails.costs = currentRouteData.costs.entries
       /\ panels.healthDetails.health = currentRouteData.health

(***************************************************************************)
(* Provided values in the resolved profile                                 *)
(***************************************************************************)
\* The property of the specifications a numeric field of the form fills.
KeyOf(f) ==
    CASE f \in {"engineVolume", "engineCC"} -> "engine"
      [] f \in {"fuelConsumption", "motorcycleFuelConsumption"} -> "consumption"
      [] f \in {"tankCapacity", "motorcycleTankCapacity"} -> "tank_capacity"
      [] f \in {"initialFuel", "motorcycleInitialFuel"} -> "initial_fuel"

\* A field that holds a valid figure: any amount of fuel from 0 up for the
\* initial fuel, a positive number for the others.
ValidEntry(f) ==
    /\ Value(f) # <<>>
    /\ IF KeyOf(f) = "initial_fuel" THEN NonNegative(parseFloat(Value(f)))
       ELSE Positive(parseFloat(Value(f)))

\* C26: profile resolution keeps every provided valid value unchanged: the
\* profile getVehicleSpecifications returns and the car_specifications of a
\* request carry, for every field that holds a valid figure, that figure; an
\* initial fuel of 0 resolves to 0, not to the default 25.0 or 5.0.
C26_ProvidedValuesKept ==
    /\ Resolved =>
          \A f \in NumericFields(transportationType) :
              ValidEntry(f) => ret.value[KeyOf(f)] = parseFloat(Value(f))
    /\ \A i \in 1..Len(inflight) :
          inflight[i].formData.car_specifications.kind = "car" =>
              \A f \in NumericFields("car") :
                  ValidEntry(f) =>
                      inflight[i].formData.car_specifications[KeyOf(f)] = parseFloat(Value(f))

\* C26, for the fields that hold a figure above 0: these are kept.
C26_PositiveValuesKept ==
    Resolved =>
        \A f \in NumericFields(transportationType) :
            (Value(f) # <<>> /\ Positive(parseFloat(Value(f))))
                => ret.value[KeyOf(f)] = parseFloat(Value(f))

(***************************************************************************)
(* The vehicle forms under change events                                   *)
(***************************************************************************)
\* The change event on a page whose module has constructed a
\* VehicleFormManager: its handler runs between the two of the page.
ManagerChange(type) ==
    /\ transportationType' = type
    /\ hidden' = pageChangeHandler(
                    handleTransportationTypeChange(appChangeHandler(hidden, type), type),
                    type)
    /\ UNCHANGED <<fields, fuelVars, errorMessage, appVars>>

InitForms ==
    /\ transportationType = "empty"
    /\ fields = HtmlDefaults
    /\ hidden = [carDetails |-> TRUE, motorcycleDetails |-> TRUE]
    /\ ret = NoRet
    /\ routeResults = [defined |-> FALSE, rendered |-> FALSE]
    /\ errorMessage = NoError
    /\ plan = NoPlan
    /\ AppIdle

NextForms ==
    \/ \E type \in TransportTypes : SelectType(type)
    \/ \E type \in TransportTypes : ManagerChange(type)
    \/ \E text \in PassengerTexts : SetPassengers(text)
    \/ ResolveProfile
    \/ SubmitPage

SpecForms == InitForms /\ [][NextForms]_vars

RouteLayersOnMap == {l \in map.onMap : l % 2 = 1}

MarkerLayersOnMap == {l \in map.onMap : l % 2 = 0}

\* C28: after any sequence of successful and failed displayRoute and
\* displayResults calls the map holds at most one route layer and at most one
\* markers layer, and every layer on the map is the one routeLayer or
\* markersLayer refers to: no layer of an earlier route stays on the map.
C28_MapLayers ==
    /\ Cardinality(RouteLayersOnMap) <= 1
    /\ Cardinality(MarkerLayersOnMap) <= 1
    /\ RouteLayersOnMap \subseteq {map.routeLayer}
    /\ MarkerLayersOnMap \subseteq {map.markersLayer}

\* Three results were handled, one of them with an error: the map holds the
\* layers of the third route only.
C28_Witness ==
    /\ map.created = 6
    /\ map.onMap = {5, 6}
    /\ map.routeLayer = 5
    /\ map.markersLayer = 6
    /\ errorMessage.shown

(***************************************************************************)
(* The displayed breakdown against the displayed total                     *)
(***************************************************************************)
\* The sum of the amounts a breakdown displays for its items.
RECURSIVE SumShown(_)
SumShown(items) ==
    IF items = <<>> THEN Num(0)
    ELSE Add(Head(items).value.amount, SumShown(Tail(items)))

\* C29: in every displayed cost breakdown the itemized amounts plus the
\* 'Additional Costs' entry, when it is shown, add up to the displayed total
\* cost, whatever the input: a total below the itemized sum, a total of 0 and
\* negative item amounts included.
C29_BreakdownAddsUp ==
    (CostsShown /\ revision = "app.js") =>
        LET view == panels.costsDetails.view
            extra == IF view.additional.shown THEN view.additional.value.amount ELSE Num(0)
        IN  Add(SumShown(view.items), extra) = view.total.amount

\* C29, for the inputs whose total is at least the itemized sum and not 0, or
\* is left out: the breakdown adds up.
C29_TotalCoversItems ==
    (CostsShown /\ revision = "app.js") =>
        LET view == panels.costsDetails.view
            costs == panels.costsDetails.costs
            total == Get(costs, "total_cost")
            extra == IF view.additional.shown THEN view.additional.value.amount ELSE Num(0)
        IN  (\/ ~Truthy(total) /\ total # Num(0)
             \/ Truthy(total) /\ Geq(total, ItemizedSum(costs)))
            => Add(SumShown(view.items), extra) = view.total.amount

(***************************************************************************)
(* The error banner and its timeouts                                       *)
(***************************************************************************)
\* The callback of the oldest timeout due runs (all are set for 5000 ms, so
\* they run in the order they were started): #errorMessage gets d-none.
TimerFires ==
    /\ timers.pending # {}
    /\ LET k == CHOOSE i \in timers.pending : \A j \in timers.pending : i <= j
       IN  timers' = [timers EXCEPT !.pending = @ \ {k}]
    /\ errorMessage' = [errorMessage EXCEPT !.shown = FALSE]
    /\ UNCHANGED <<formVars, fuelVars, revision, pending, currentRouteData, panels, map,
                   shareButtonHidden, opened, uncaught, inflight, sent>>

NextErrors == NextSubmit \/ TimerFires

SpecErrors == InitSubmit /\ [][NextErrors]_vars

\* Every timeout started runs in the end.
SpecErrorsFair == SpecErrors /\ WF_vars(TimerFires)

\* C30: an error message shown by showError is hidden only by the timer of
\* the call that showed it: whenever a shown message becomes hidden, the
\* timeout that ran is the one of the latest showError call, so the timer of
\* a first call does not hide the message of a second one.
C30_HiddenByItsOwnTimer ==
    [][(errorMessage.shown /\ ~errorMessage'.shown)
          => /\ timers.started \in timers.pending
             /\ timers'.pending = timers.pending \ {timers.started}]_vars

\* C30, the other half: a message that is shown is hidden in the end.
C30_EventuallyHidden == errorMessage.shown ~> ~errorMessage.shown

=============================================================================
